---- MODULE Spec2Model ----
(***************************************************************************)
(* Model of rabbit_bot.py: the SQLite tables the bot keeps (rabbits,       *)
(* breedings), the repository functions that read and write them, the      *)
(* inbreeding assessment and the /breed and /forcebreed handlers.          *)
(*                                                                         *)
(* Encoding of SQL values:                                                 *)
(*   - a row id is the position of the row in its table (AUTOINCREMENT,    *)
(*     no table ever has a row deleted); a NULL id is NULL_ID (0);         *)
(*   - a TEXT date "YYYY-MM-DD" is the tuple <<y, m, d>>; NULL is          *)
(*     NULL_DATE (the empty tuple);                                        *)
(*   - date.today() is the day counter `today`, the number of days since   *)
(*     the first day of month Epoch[2] of year Epoch[1].                  *)
(***************************************************************************)
EXTENDS Integers, Sequences, FiniteSets, TLC

\* ------------------------------------------------------------------ bounds
MaxBreedings == 2
MaxTicks == 1
MaxKinBreedings == 1
MaxParented == 2
MaxSales == 2
MaxBookRows == 3
MaxRecords == 2
MaxTasks == 3
MaxWeights == 3

\* ------------------------------------------------------- program constants
GESTATION_DAYS_Short == 31 - 1
GESTATION_DAYS == 31

WEANING_DAYS_Short == 35 - 1
WEANING_DAYS == 35

\* The Telegram user id 5891168987; ids are only compared for equality, and
\* the number does not fit the 32-bit integers of the model checker.
OWNER_ID == "5891168987"
STRANGER_ID == "1000000001"
Users == {OWNER_ID, STRANGER_ID}
\* The chats messages come from (update.effective_chat.id).
Chats == {"chat1", "chat2"}
\* The chats /subscribe and /unsubscribe come from.
SubscribeChats == {"chat1", "chat2", "chat3"}

\* --------------------------------------------------------- input alphabets
NULL_ID == 0
NULL_DATE == << >>
NULL_INT == -1
NULL_TEXT == "<NULL>"

\* The names callers use, in the order in which the rabbits are first entered;
\* the pedigrees of four rabbits use MoreNames.
NameSeq == <<"A", "B", "C">>
Names == {NameSeq[i] : i \in 1..Len(NameSeq)}
MoreNameSeq == <<"A", "B", "C", "D">>
MoreNames == {MoreNameSeq[i] : i \in 1..Len(MoreNameSeq)}
Sexes == {"M", "F", "X"}
\* The sex the caller enters for each name ("X" stands for any text that is
\* neither M nor F).
SexOf == [n \in MoreNames |-> IF n \in {"B", "D"} THEN "M" ELSE "F"]
LitterSizes == {4}
LitterNames == {"L1"}
NO_ARG == "<none>"
Prices == {5}
BookPrices == {NULL_INT, 5}
Amounts == {2}
FeedKgs == {3}
FeedCosts == {7}
BookStartDays == {29, 60}
Buyers == {NULL_TEXT}
\* The pair suggestions: the rabbits are entered in an order that is not the
\* order of their names, and the parents are taken from these triples of
\* child, mother, father.
PairNameSeq == <<"C", "B", "A", "D">>
PairParents ==
    { <<"A", "C", "B">>, <<"D", "C", "B">>, <<"D", "B", "B">>,
      <<"C", "C", "C">>, <<"B", "C", "C">>, <<"B", "C", "D">> }
Limits == {0, 1, 2, 5}
\* The numbers of days that pass between two calls when litters fall due.
DaySteps == {1, 30, 31}
\* Period tokens: years and months around the dates of the model, and tokens
\* of neither kind.
GoodPeriods ==
    { <<"2", "0", "2", "3">>, <<"2", "0", "2", "4">>,
      <<"2", "0", "2", "3", "-", "1", "1">>, <<"2", "0", "2", "3", "-", "1", "2">>,
      <<"2", "0", "2", "4", "-", "0", "1">> }
BadPeriods ==
    { <<"2", "3">>, <<"2", "0", "x", "3">>, <<"2", "0", "2", "3", "/", "1", "2">>,
      <<"2", "0", "2", "3", "-", "1", "x">>, <<"2", "0", "2", "3", "-", "_", "2">> }
\* The records of a rabbit: the names callers pass (only the first is ever
\* entered), cage and section labels, photo references, health notes and
\* weights in grams.
RecordNameSeq == <<"A">>
RecordNames == {"A", "B"}
Cages == {"c1"}
Sections == {NULL_TEXT, "s1"}
FileIds == {"f1"}
HealthNotes == {"n1"}
RecordWeights == {1000}
WeightsG == {1000, 1200}
\* The task ids a caller passes (int(parts[1]) of /donetask) and the days
\* tasks are set for.
TaskIdArgs == {-1, 0, 1, 2, 3}
TaskDays == {29, 30}
TaskTitles == {"t1"}
Temps == {32}
StartDays == {29}
Epoch == <<2023, 11>>

\* ------------------------------------------------------------ the calendar
\* datetime.date: Gregorian leap years and month lengths.
IsLeap(y) == (y % 4 = 0 /\ y % 100 # 0) \/ y % 400 = 0

DaysInMonth(y, m) ==
    IF m = 2 THEN (IF IsLeap(y) THEN 29 ELSE 28)
    ELSE IF m \in {4, 6, 9, 11} THEN 30 ELSE 31

RECURSIVE YMD(_, _, _)
YMD(y, m, rest) ==
    IF rest < DaysInMonth(y, m) THEN <<y, m, rest + 1>>
    ELSE IF m = 12 THEN YMD(y + 1, 1, rest - DaysInMonth(y, m))
    ELSE YMD(y, m + 1, rest - DaysInMonth(y, m))

\* d.strftime("%Y-%m-%d") for the date that lies n days after the epoch,
\* the first day of month Epoch[2] of year Epoch[1].
Strftime(n) == YMD(Epoch[1], Epoch[2], n)

RECURSIVE DaysUpTo(_, _, _)
\* The number of days from the first of month m of year y to the date s.
DaysUpTo(y, m, s) ==
    IF y = s[1] /\ m = s[2] THEN s[3] - 1
    ELSE IF m = 12 THEN DaysInMonth(y, m) + DaysUpTo(y + 1, 1, s)
    ELSE DaysInMonth(y, m) + DaysUpTo(y, m + 1, s)

\* The day number a stored "YYYY-MM-DD" text stands for (what SQLite's
\* DATE() orders by).
DateOrdinal(s) == DaysUpTo(Epoch[1], Epoch[2], s)

\* --------------------------------------------------------------- the state
VARIABLES
    rabbits,      \* table rabbits, in id order
    breedings,    \* table breedings, in id order
    today,        \* date.today(), in days since the epoch
    ticks,        \* number of times the clock has advanced
    ret,          \* the last call: operation, the names passed, returned value
    sales,        \* table sales, in id order
    expenses,     \* table expenses, in id order
    feed_logs,    \* table feed_logs, in id order
    achievements, \* table achievements, in id order
    weights,      \* table weights, in id order
    health_records, \* table health_records, in id order
    tasks,        \* table tasks, in id order
    jobs,         \* the job queue: the names of the scheduled jobs
    conv,         \* each conversation handler's state of each (chat, user)
    user_data,    \* context.user_data of each user
    settings      \* table settings, in rowid order

notes == <<health_records, tasks, settings>>
chat == <<jobs, conv, user_data>>
books == <<sales, expenses, feed_logs, achievements, weights, notes, chat>>
vars == <<rabbits, breedings, today, ticks, ret, books>>

Call(op, args, result) == [op |-> op, args |-> args, result |-> result]

\* ConversationHandler.END: no conversation is running for the key.
END == "END"
\* build_app registers the /addrabbit ConversationHandler twice; each keeps
\* its own conversations, keyed by (chat, user).
ConvHandlers == {1, 2}
NoConversations == [k \in ConvHandlers \X Chats \X Users |-> END]

\* A user_data dictionary without keys; a key that is missing reads as
\* NULL_TEXT (dict.get gives None).
NoUserData ==
    [u \in Users |-> [name |-> NULL_TEXT, sex |-> NULL_TEXT, cage |-> NULL_TEXT,
                      section |-> NULL_TEXT]]

Init ==
    /\ rabbits = << >>
    /\ breedings = << >>
    /\ today \in StartDays
    /\ ticks = 0
    /\ ret = Call("init_db", << >>, "None")
    /\ sales = << >>
    /\ expenses = << >>
    /\ feed_logs = << >>
    /\ achievements = << >>
    /\ weights = << >>
    /\ health_records = << >>
    /\ tasks = << >>
    /\ jobs = << >>
    /\ conv = NoConversations
    /\ user_data = NoUserData
    /\ settings = << >>

\* ------------------------------------------------------------ repository
RabbitIds == 1..Len(rabbits)

\* get_rabbit(name): the row id, or NULL_ID when no row has that name.
get_rabbit(name) ==
    IF \E i \in RabbitIds : rabbits[i].name = name
    THEN CHOOSE i \in RabbitIds : rabbits[i].name = name
    ELSE NULL_ID

\* CREATE TABLE rabbits: name TEXT UNIQUE NOT NULL.
UniqueViolated_Off(name) == FALSE
UniqueViolated(name) == \E i \in RabbitIds : rabbits[i].name = name

\* CREATE TABLE rabbits: sex TEXT CHECK(sex IN ('M','F')).
SexCheckViolated(sex) == sex \notin {"M", "F"}

NewRabbit(name, sex) ==
    [name |-> name, sex |-> sex, mother_id |-> NULL_ID, father_id |-> NULL_ID,
     cage |-> NULL_TEXT, section |-> NULL_TEXT, status |-> "active",
     death_date |-> NULL_DATE, photo_file_id |-> NULL_TEXT]

\* The achievement block of add_rabbit calls unlock_achievement, a name the
\* module never defines: the call raises NameError after the INSERT has been
\* committed.
AddRabbitRaises(total) == total = 1 \/ total >= 10 \/ total >= 50

\* add_rabbit(name, sex)
AddRabbit(name, sex) ==
    /\ IF UniqueViolated(name) \/ SexCheckViolated(sex)
       THEN /\ ret' = Call("add_rabbit", <<name>>, "False")
            /\ UNCHANGED rabbits
       ELSE /\ rabbits' = Append(rabbits, NewRabbit(name, sex))
            /\ ret' = Call("add_rabbit", <<name>>,
                           IF AddRabbitRaises(Len(rabbits) + 1)
                           THEN "NameError" ELSE "True")
    /\ UNCHANGED <<breedings, today, ticks, books>>

\* ------------------------------------------------------ breeding & litters
BreedingIds == 1..Len(breedings)

NewBreeding(doe, buck, mating, due) ==
    [doe_id |-> doe, buck_id |-> buck,
     mating_date |-> Strftime(mating), expected_due_date |-> Strftime(due),
     kindling_date |-> NULL_DATE, litter_size |-> NULL_INT,
     weaning_date |-> NULL_DATE, litter_name |-> NULL_TEXT]

\* add_breeding: `if doe["sex"] != "F" or buck["sex"] != "M"`.
SexMismatch_Off(doe, buck) == FALSE
SexMismatch_And(doe, buck) == rabbits[doe].sex # "F" /\ rabbits[buck].sex # "M"
SexMismatch(doe, buck) == rabbits[doe].sex # "F" \/ rabbits[buck].sex # "M"

\* The effect of add_breeding(doe_name, buck_name) on the table, and the
\* value it returns.
add_breeding_result(doe_name, buck_name) ==
    LET doe == get_rabbit(doe_name)
        buck == get_rabbit(buck_name)
    IN  IF doe = NULL_ID \/ buck = NULL_ID THEN "Rabbit not found."
        ELSE IF SexMismatch(doe, buck) THEN "Sex mismatch"
        ELSE "bred"

add_breeding_rows(doe_name, buck_name) ==
    IF add_breeding_result(doe_name, buck_name) = "bred"
    THEN Append(breedings,
                NewBreeding(get_rabbit(doe_name), get_rabbit(buck_name),
                            today, today + GESTATION_DAYS))
    ELSE breedings

\* add_breeding(doe_name, buck_name)
AddBreeding(doe_name, buck_name, cap) ==
    /\ add_breeding_result(doe_name, buck_name) = "bred" => Len(breedings) < cap
    /\ breedings' = add_breeding_rows(doe_name, buck_name)
    /\ ret' = Call("add_breeding", <<doe_name, buck_name>>,
                   add_breeding_result(doe_name, buck_name))
    /\ UNCHANGED <<rabbits, today, ticks, books>>

IsOpen_Any(b) == TRUE
IsOpen(b) == breedings[b].kindling_date = NULL_DATE

OpenBreedingsOf(doe) == {b \in BreedingIds : breedings[b].doe_id = doe /\ IsOpen(b)}

ClosedBreedingsOf(doe) == {b \in BreedingIds : breedings[b].doe_id = doe /\ ~IsOpen(b)}

\* record_kindling: SELECT ... WHERE doe_id=? AND kindling_date IS NULL
\* ORDER BY DATE(mating_date) DESC LIMIT 1.  Every row this set holds can be
\* the one SQLite returns: rows with equal mating dates are in no defined
\* order.
LatestOpen_Oldest(doe) ==
    {b \in OpenBreedingsOf(doe) :
        \A c \in OpenBreedingsOf(doe) :
            DateOrdinal(breedings[b].mating_date) <= DateOrdinal(breedings[c].mating_date)}
LatestOpen(doe) ==
    {b \in OpenBreedingsOf(doe) :
        \A c \in OpenBreedingsOf(doe) :
            DateOrdinal(breedings[b].mating_date) >= DateOrdinal(breedings[c].mating_date)}

RECURSIVE SumLitterSize(_, _)
\* SELECT COALESCE(SUM(litter_size), 0) FROM breedings WHERE litter_size IS NOT NULL
SumLitterSize(rows, n) ==
    IF n = 0 THEN 0
    ELSE SumLitterSize(rows, n - 1)
         + (IF rows[n].litter_size = NULL_INT THEN 0 ELSE rows[n].litter_size)

\* The achievement block of record_kindling calls the undefined
\* unlock_achievement when the first litter is recorded or the kits reach 50.
RecordKindlingRaises(rows) ==
    LET litters == Cardinality({b \in 1..Len(rows) : rows[b].kindling_date # NULL_DATE})
        kits == SumLitterSize(rows, Len(rows))
    IN  litters = 1 \/ kits >= 50 \/ kits >= 200

\* The UPDATE of record_kindling on row b; `if litter_name:` picks the
\* statement that also writes litter_name.
Kindled(b, litter_size, litter_name) ==
    [breedings EXCEPT
        ![b].kindling_date = Strftime(today),
        ![b].litter_size = litter_size,
        ![b].weaning_date = Strftime(today + WEANING_DAYS),
        ![b].litter_name = IF litter_name # NO_ARG THEN litter_name ELSE @]

\* record_kindling(doe_name, litter_size, litter_name=None)
RecordKindling(doe_name, litter_size, litter_name) ==
    /\ LET doe == get_rabbit(doe_name) IN
       IF doe = NULL_ID
       THEN /\ ret' = Call("record_kindling", <<doe_name>>, "Doe not found.")
            /\ UNCHANGED breedings
       ELSE IF OpenBreedingsOf(doe) = {}
       THEN /\ ret' = Call("record_kindling", <<doe_name>>,
                           "No open breeding found for this doe.")
            /\ UNCHANGED breedings
       ELSE \E b \in LatestOpen(doe) :
            /\ breedings' = Kindled(b, litter_size, litter_name)
            /\ ret' = Call("record_kindling", <<doe_name>>,
                           IF RecordKindlingRaises(breedings')
                           THEN "NameError" ELSE "Kindling recorded")
    /\ UNCHANGED <<rabbits, today, ticks, books>>

\* set_litter_name_for_latest: SELECT id ... WHERE kindling_date IS NOT NULL
\* ORDER BY DATE(kindling_date) DESC, DATE(mating_date) DESC LIMIT 1.
LatestClosed(doe) ==
    {b \in ClosedBreedingsOf(doe) :
        \A c \in ClosedBreedingsOf(doe) :
            LET kb == DateOrdinal(breedings[b].kindling_date)
                kc == DateOrdinal(breedings[c].kindling_date)
                mb == DateOrdinal(breedings[b].mating_date)
                mc == DateOrdinal(breedings[c].mating_date)
            IN  kb > kc \/ (kb = kc /\ mb >= mc)}

\* set_litter_name_for_latest(doe_name, litter_name)
SetLitterName(doe_name, litter_name) ==
    /\ LET doe == get_rabbit(doe_name) IN
       IF doe = NULL_ID
       THEN /\ ret' = Call("set_litter_name_for_latest", <<doe_name>>,
                           "Doe not found.")
            /\ UNCHANGED breedings
       ELSE IF ClosedBreedingsOf(doe) = {}
       THEN /\ ret' = Call("set_litter_name_for_latest", <<doe_name>>,
                           "No litters found for this doe.")
            /\ UNCHANGED breedings
       ELSE \E b \in LatestClosed(doe) :
            /\ breedings' = [breedings EXCEPT ![b].litter_name = litter_name]
            /\ ret' = Call("set_litter_name_for_latest", <<doe_name>>,
                           "Litter name set")
    /\ UNCHANGED <<rabbits, today, ticks, books>>

\* ------------------------------------------------------- status & sales
\* UPDATE rabbits SET status='dead', death_date=?, death_reason=? WHERE id=?
DeadStatus_Active == "active"
DeadStatus == "dead"

\* mark_dead(name, reason); the text of the reason is left out.
MarkDead(name) ==
    /\ LET r == get_rabbit(name)
       IN  IF r = NULL_ID
           THEN /\ ret' = Call("mark_dead", <<name>>, "Rabbit not found.")
                /\ UNCHANGED rabbits
           ELSE /\ rabbits' = [rabbits EXCEPT ![r].status = DeadStatus,
                                              ![r].death_date = Strftime(today)]
                /\ ret' = Call("mark_dead", <<name>>, "marked as dead")
    /\ UNCHANGED <<breedings, today, ticks, books>>

SaleIds == 1..Len(sales)

NewSale(rabbit, price, buyer) ==
    [rabbit_id |-> rabbit, sale_date |-> Strftime(today), price |-> price,
     buyer |-> buyer]

\* record_sale sets the status in the transaction of the INSERT.
SoldStatus_Active == "active"
SoldStatus == "sold"

\* record_sale(name, price, buyer): after the commit the achievement block
\* calls unlock_achievement, which the module never defines, so every sale
\* that is stored ends in NameError.
RecordSale(name, price, buyer, cap) ==
    /\ LET rabbit == get_rabbit(name)
       IN  IF rabbit = NULL_ID
           THEN /\ ret' = Call("record_sale", <<name>>, "Rabbit not found.")
                /\ UNCHANGED <<rabbits, sales>>
           ELSE /\ Len(sales) < cap
                /\ sales' = Append(sales, NewSale(rabbit, price, buyer))
                /\ rabbits' = [rabbits EXCEPT ![rabbit].status = SoldStatus]
                /\ ret' = Call("record_sale", <<name>>, "NameError")
    /\ UNCHANGED <<breedings, today, ticks, expenses, feed_logs, achievements, weights, notes, chat>>

\* ------------------------------------------- location, photo, health, weight
\* `if not r:` / `if not rabbit:` of the functions below.
NotFound_Never(row) == FALSE
NotFound(row) == row = NULL_ID

\* INSERT INTO ... VALUES (...): the new row gets the next id.
InsertRow_Replace(rows, row) ==
    IF rows = << >> THEN <<row>> ELSE [rows EXCEPT ![Len(rows)] = row]
InsertRow(rows, row) == Append(rows, row)

\* set_cage_section(name, cage, section=None)
SetCageSection(name, cage, section) ==
    /\ LET r == get_rabbit(name)
       IN  IF NotFound(r)
           THEN /\ ret' = Call("set_cage_section", <<name>>, "Rabbit not found.")
                /\ UNCHANGED rabbits
           ELSE /\ rabbits' = [rabbits EXCEPT ![r].cage = cage, ![r].section = section]
                /\ ret' = Call("set_cage_section", <<name>>, "assigned to cage")
    /\ UNCHANGED <<breedings, today, ticks, books>>

\* set_rabbit_photo(name, file_id)
SetRabbitPhoto(name, file_id) ==
    /\ LET r == get_rabbit(name)
       IN  IF NotFound(r)
           THEN /\ ret' = Call("set_rabbit_photo", <<name>>, "Rabbit not found.")
                /\ UNCHANGED rabbits
           ELSE /\ rabbits' = [rabbits EXCEPT ![r].photo_file_id = file_id]
                /\ ret' = Call("set_rabbit_photo", <<name>>, "Photo saved")
    /\ UNCHANGED <<breedings, today, ticks, books>>

\* add_health_record(name, note)
AddHealthRecord(name, note, cap) ==
    /\ LET rabbit == get_rabbit(name)
       IN  IF NotFound(rabbit)
           THEN /\ ret' = Call("add_health_record", <<name>>, "Rabbit not found.")
                /\ UNCHANGED health_records
           ELSE /\ Len(health_records) < cap
                /\ health_records' =
                       InsertRow(health_records,
                                 [rabbit_id |-> rabbit, record_date |-> Strftime(today),
                                  note |-> note])
                /\ ret' = Call("add_health_record", <<name>>, "Health note added")
    /\ UNCHANGED <<rabbits, breedings, today, ticks, sales, expenses, feed_logs,
                   achievements, weights, tasks, settings, chat>>

\* add_weight(name, weight_kg); the model holds the weight in grams, as a
\* whole number.
AddWeight(name, weight_g, cap) ==
    /\ LET rabbit == get_rabbit(name)
       IN  IF NotFound(rabbit)
           THEN /\ ret' = Call("add_weight", <<name>>, "Rabbit not found.")
                /\ UNCHANGED weights
           ELSE /\ Len(weights) < cap
                /\ weights' =
                       InsertRow(weights,
                                 [rabbit_id |-> rabbit, weigh_date |-> Strftime(today),
                                  weight_g |-> weight_g])
                /\ ret' = Call("add_weight", <<name>>, "Recorded weight")
    /\ UNCHANGED <<rabbits, breedings, today, ticks, sales, expenses, feed_logs,
                   achievements, notes, chat>>

\* ------------------------------------------------ expenses, feed, profit
\* Texts are sequences of one-character strings.
DigitChars == <<"0", "1", "2", "3", "4", "5", "6", "7", "8", "9">>
IsDigitChar(c) == \E i \in 1..10 : DigitChars[i] = c

\* "%04d" and "%02d" of strftime.
TwoDigits(n) == <<DigitChars[((n \div 10) % 10) + 1], DigitChars[(n % 10) + 1]>>
FourDigits(n) == TwoDigits(n \div 100) \o TwoDigits(n % 100)

\* The characters of the stored text "YYYY-MM-DD" of a date.
IsoChars(d) == FourDigits(d[1]) \o <<"-">> \o TwoDigits(d[2]) \o <<"-">> \o TwoDigits(d[3])

RECURSIVE Like(_, _)
\* SQLite's  text LIKE pattern : % stands for any run of characters and _
\* for any one character.
Like(pattern, text) ==
    IF pattern = << >> THEN text = << >>
    ELSE IF Head(pattern) = "%"
         THEN \E k \in 0..Len(text) : Like(Tail(pattern), SubSeq(text, k + 1, Len(text)))
    ELSE IF text = << >> THEN FALSE
    ELSE /\ Head(pattern) = "_" \/ Head(pattern) = Head(text)
         /\ Like(Tail(pattern), Tail(text))

\* period=None
NO_PERIOD == <<"None">>

\* The two shapes get_profit_summary and get_feed_stats test for.
IsMonthShape(period) == Len(period) = 7 /\ period[5] = "-"
IsYearShape_Len(period) == Len(period) = 4
IsYearShape(period) == Len(period) = 4 /\ \A i \in 1..4 : IsDigitChar(period[i])

\* The WHERE clause: TRUE for every row when there is none.
PeriodFilter_Equal(period, date) ==
    IF period = NO_PERIOD THEN TRUE
    ELSE IF IsMonthShape(period) \/ IsYearShape(period) THEN IsoChars(date) = period
    ELSE TRUE
PeriodFilter(period, date) ==
    IF period = NO_PERIOD THEN TRUE
    ELSE IF IsMonthShape(period) THEN Like(period \o <<"%">>, IsoChars(date))
    ELSE IF IsYearShape(period) THEN Like(period \o <<"%">>, IsoChars(date))
    ELSE TRUE

RECURSIVE SumColumn(_, _, _, _, _)
\* COALESCE(SUM(column), 0) over the first n rows whose date column passes
\* the filter; SUM skips NULL.  Amounts are whole numbers in the model.
SumColumn(rows, n, column, datecol, period) ==
    IF n = 0 THEN 0
    ELSE SumColumn(rows, n - 1, column, datecol, period)
         + (IF PeriodFilter(period, rows[n][datecol]) /\ rows[n][column] # NULL_INT
            THEN rows[n][column] ELSE 0)

\* add_expense(amount, category, note)
AddExpense(amount, cap) ==
    /\ Len(expenses) < cap
    /\ expenses' = Append(expenses, [exp_date |-> Strftime(today), amount |-> amount])
    /\ ret' = Call("add_expense", << >>, "Expense recorded")
    /\ UNCHANGED <<rabbits, breedings, today, ticks, sales, feed_logs, achievements, weights, notes, chat>>

\* add_feed(amount_kg, cost, note)
AddFeed(amount_kg, cost, cap) ==
    /\ Len(feed_logs) < cap
    /\ feed_logs' = Append(feed_logs, [log_date |-> Strftime(today),
                                       amount_kg |-> amount_kg, cost |-> cost])
    /\ ret' = Call("add_feed", << >>, "Feed log")
    /\ UNCHANGED <<rabbits, breedings, today, ticks, sales, expenses, achievements, weights, notes, chat>>

\* get_profit_summary(period)
get_profit_summary(period) ==
    LET income == SumColumn(sales, Len(sales), "price", "sale_date", period)
        spent == SumColumn(expenses, Len(expenses), "amount", "exp_date", period)
    IN  <<income, spent, income - spent>>

\* get_feed_stats(period)
get_feed_stats(period) ==
    <<SumColumn(feed_logs, Len(feed_logs), "amount_kg", "log_date", period),
      SumColumn(feed_logs, Len(feed_logs), "cost", "log_date", period)>>

ProfitSummary(period) ==
    /\ ret' = Call("get_profit_summary", <<period>>, get_profit_summary(period))
    /\ UNCHANGED <<rabbits, breedings, today, ticks, books>>

FeedStats(period) ==
    /\ ret' = Call("get_feed_stats", <<period>>, get_feed_stats(period))
    /\ UNCHANGED <<rabbits, breedings, today, ticks, books>>

\* ------------------------------------------------------------------ tasks
\* add_task(task_date_str, title, note=None): done takes its default 0.
AddTask(task_day, title) ==
    /\ Len(tasks) < MaxTasks
    /\ tasks' = Append(tasks, [task_date |-> Strftime(task_day), title |-> title,
                               done |-> 0])
    /\ ret' = Call("add_task", << >>, "Task added.")
    /\ UNCHANGED <<rabbits, breedings, today, ticks, sales, expenses, feed_logs,
                   achievements, weights, health_records, settings, chat>>

\* UPDATE tasks SET done=1 WHERE id=?
TaskMatches_Open(t, task_id) == t = task_id /\ tasks[t].done = 0
TaskMatches(t, task_id) == t = task_id

\* mark_task_done(task_id): cur.rowcount counts the rows the WHERE clause
\* matches.
MarkTaskDone(task_id) ==
    /\ LET changed == {t \in 1..Len(tasks) : TaskMatches(t, task_id)}
       IN  /\ tasks' = [t \in 1..Len(tasks) |->
                           IF t \in changed THEN [tasks[t] EXCEPT !.done = 1]
                           ELSE tasks[t]]
           /\ ret' = Call("mark_task_done", <<task_id>>,
                          IF Cardinality(changed) > 0 THEN "True" ELSE "False")
    /\ UNCHANGED <<rabbits, breedings, today, ticks, sales, expenses, feed_logs,
                   achievements, weights, health_records, settings, chat>>

\* ------------------------------------------------------------ parents
\* `if not mother or not father`
ParentMissing_Both(mother, father) == mother = NULL_ID /\ father = NULL_ID
ParentMissing(mother, father) == mother = NULL_ID \/ father = NULL_ID

\* update_rabbit_parents(child_name, mother_name, father_name)
UpdateRabbitParents(child_name, mother_name, father_name) ==
    /\ LET child == get_rabbit(child_name)
           mother == get_rabbit(mother_name)
           father == get_rabbit(father_name)
       IN  IF child = NULL_ID
           THEN /\ ret' = Call("update_rabbit_parents",
                               <<child_name, mother_name, father_name>>,
                               "Child not found.")
                /\ UNCHANGED rabbits
           ELSE IF ParentMissing(mother, father)
           THEN /\ ret' = Call("update_rabbit_parents",
                               <<child_name, mother_name, father_name>>,
                               "Mother or father not found.")
                /\ UNCHANGED rabbits
           ELSE /\ rabbits' = [rabbits EXCEPT ![child].mother_id = mother,
                                              ![child].father_id = father]
                /\ ret' = Call("update_rabbit_parents",
                               <<child_name, mother_name, father_name>>,
                               "Parents set")
    /\ UNCHANGED <<breedings, today, ticks, books>>

\* ------------------------------------------------- inbreeding assessment
\* assess_inbreeding: set(x for x in [r["mother_id"], r["father_id"]] if x)
parents_of(r) == {rabbits[r].mother_id, rabbits[r].father_id} \ {NULL_ID}

\* assess_inbreeding: `if r1["id"] in parents2 or r2["id"] in parents1`.
ParentOffspring_OneWay(r1, r2) == r1 \in parents_of(r2)
ParentOffspring(r1, r2) == r1 \in parents_of(r2) \/ r2 \in parents_of(r1)

\* assess_inbreeding: the `full` flag of the shared-parents branch.
FullSiblings(r1, r2) ==
    /\ rabbits[r1].mother_id # NULL_ID
    /\ rabbits[r1].mother_id = rabbits[r2].mother_id
    /\ rabbits[r1].father_id # NULL_ID
    /\ rabbits[r1].father_id = rabbits[r2].father_id

\* assess_inbreeding.grandparents_ids(r); get_rabbit_by_id finds every id a
\* parent column holds, since no rabbit row is ever deleted.
grandparents_ids_MotherSide(r) ==
    UNION {parents_of(pid) : pid \in {rabbits[r].mother_id} \ {NULL_ID}}
grandparents_ids(r) == UNION {parents_of(pid) : pid \in parents_of(r)}

Verdict(severity, wording, shared) ==
    [severity |-> severity, wording |-> wording, shared |-> shared]

NamesOf(ids) == {rabbits[i].name : i \in ids}

\* assess_inbreeding(name1, name2): the severity, the wording of the message
\* and the names the message lists.
assess_inbreeding(name1, name2) ==
    LET r1 == get_rabbit(name1)
        r2 == get_rabbit(name2)
    IN  IF r1 = NULL_ID \/ r2 = NULL_ID
        THEN Verdict("error", "One or both rabbits not found.", {})
        ELSE IF r1 = r2
        THEN Verdict("error", "Same rabbit.", {})
        ELSE IF ParentOffspring(r1, r2)
        THEN Verdict("danger", "parent-offspring", {})
        ELSE IF parents_of(r1) \cap parents_of(r2) # {}
        THEN Verdict("danger",
                     IF FullSiblings(r1, r2) THEN "full siblings" ELSE "half-siblings",
                     NamesOf(parents_of(r1) \cap parents_of(r2)))
        ELSE IF grandparents_ids(r1) \cap grandparents_ids(r2) # {}
        THEN Verdict("warning", "shared grandparent(s)",
                     NamesOf(grandparents_ids(r1) \cap grandparents_ids(r2)))
        ELSE Verdict("none", "No close relation found", {})

\* ------------------------------------------------------------ due today
\* WHERE b.expected_due_date = today's "%Y-%m-%d"
IsDueToday_OpenOnly(b) ==
    breedings[b].expected_due_date = Strftime(today) /\ breedings[b].kindling_date = NULL_DATE
IsDueToday(b) == breedings[b].expected_due_date = Strftime(today)

RECURSIVE DueRows(_)
\* The doe names of the due rows among the first n breedings.  SQL does not
\* fix the order of the rows; they are listed by breeding id.
DueRows(n) ==
    IF n = 0 THEN << >>
    ELSE DueRows(n - 1)
         \o (IF IsDueToday(n) THEN <<rabbits[breedings[n].doe_id].name>> ELSE << >>)

\* get_due_today()
get_due_today == DueRows(Len(breedings))

GetDueToday ==
    /\ ret' = Call("get_due_today", << >>, get_due_today)
    /\ UNCHANGED <<rabbits, breedings, today, ticks, books>>

\* n days pass between two calls.
DaysPass(n) ==
    /\ ticks < MaxTicks
    /\ today' = today + n
    /\ ticks' = ticks + 1
    /\ ret' = Call("idle", << >>, "None")
    /\ UNCHANGED <<rabbits, breedings, books>>

\* -------------------------------------------------- growth & suggestions
\* get_growth_stats: get_weight_log(name, limit=1000)
WEIGHT_LOG_LIMIT == 1000

\* The weight rows of rabbit r.
WeightRowsOf(r) == {w \in 1..Len(weights) : weights[w].rabbit_id = r}

\* The order of two "YYYY-MM-DD" texts.
TextDateLess(a, b) ==
    \/ a[1] < b[1]
    \/ a[1] = b[1] /\ a[2] < b[2]
    \/ a[1] = b[1] /\ a[2] = b[2] /\ a[3] < b[3]

\* w comes before v in ORDER BY weigh_date, id.
WeighedBefore(w, v) ==
    \/ TextDateLess(weights[w].weigh_date, weights[v].weigh_date)
    \/ /\ weights[w].weigh_date = weights[v].weigh_date
       /\ w <= v

RECURSIVE DropEarliest(_, _)
\* The rows that are left when the k first rows of ORDER BY weigh_date, id
\* are taken away.
DropEarliest(rows, k) ==
    IF k <= 0 THEN rows
    ELSE DropEarliest(rows \ {CHOOSE w \in rows : \A v \in rows : WeighedBefore(w, v)},
                      k - 1)

\* get_weight_log(name, limit): ORDER BY weigh_date DESC, id DESC LIMIT ?
get_weight_log(r, limit) ==
    DropEarliest(WeightRowsOf(r), Cardinality(WeightRowsOf(r)) - limit)

\* get_growth_stats(name): has_data, the gain in grams and the days it took
\* (daily grams = gain / days).
get_growth_stats(r) ==
    LET rows == get_weight_log(r, WEIGHT_LOG_LIMIT) IN
    IF Cardinality(rows) < 2 THEN [has_data |-> FALSE, gain |-> 0, days |-> 1]
    ELSE LET first == CHOOSE w \in rows : \A v \in rows : WeighedBefore(w, v)
             last == CHOOSE w \in rows : \A v \in rows : WeighedBefore(v, w)
             days == DateOrdinal(weights[last].weigh_date)
                        - DateOrdinal(weights[first].weigh_date)
         IN  IF days <= 0 THEN [has_data |-> FALSE, gain |-> 0, days |-> 1]
             ELSE [has_data |-> TRUE,
                   gain |-> weights[last].weight_g - weights[first].weight_g,
                   days |-> days]

\* get_growth_stats(name) as a call; a name that is not stored has no rows.
GrowthStats(name) ==
    /\ ret' = Call("get_growth_stats", <<name>>, get_growth_stats(get_rabbit(name)))
    /\ UNCHANGED <<rabbits, breedings, today, ticks, books>>

\* The place of a name in ORDER BY name.
NameRank(name) == CHOOSE i \in 1..Len(MoreNameSeq) : MoreNameSeq[i] = name

RECURSIVE OrderByName(_)
\* The rows of the set ids as a sequence, ORDER BY name.
OrderByName(ids) ==
    IF ids = {} THEN << >>
    ELSE LET r == CHOOSE x \in ids :
                    \A y \in ids : NameRank(rabbits[x].name) <= NameRank(rabbits[y].name)
         IN  <<r>> \o OrderByName(ids \ {r})

\* SELECT * FROM rabbits WHERE sex=? AND status='active' ORDER BY name
ActiveOfSex_AnyStatus(sex) ==
    OrderByName({r \in RabbitIds : rabbits[r].sex = sex})
ActiveOfSex(sex) ==
    OrderByName({r \in RabbitIds : rabbits[r].sex = sex /\ rabbits[r].status = "active"})

\* The score of doe d with buck b as the fraction num / den, den > 0:
\* 5 or 1 for the relation, 2 * kits / litters, litters, a tenth of the
\* daily gain in grams, 0.3 for each rabbit whose father is b.
PairScore(d, b, severity) ==
    LET closed == {i \in BreedingIds : breedings[i].doe_id = d
                                        /\ breedings[i].kindling_date # NULL_DATE}
        litters == Cardinality(closed)
        total_kits == SumLitterSize([i \in BreedingIds |->
                          IF i \in closed THEN breedings[i]
                          ELSE [breedings[i] EXCEPT !.litter_size = NULL_INT]],
                          Len(breedings))
        g == get_growth_stats(d)
        off == Cardinality({k \in RabbitIds : rabbits[k].father_id = b})
        bonus == IF severity = "none" THEN 5 ELSE IF severity = "warning" THEN 1 ELSE 0
        L == IF litters > 0 THEN litters ELSE 1
        den == 10 * L * g.days
    IN  <<(bonus + litters) * den
            + (IF litters > 0 THEN 20 * total_kits * g.days ELSE 0)
            + (IF g.has_data THEN g.gain * L ELSE 0)
            + 3 * off * L * g.days,
          den>>

\* score x is smaller than score y.
ScoreLess(x, y) == x[1] * y[2] < y[1] * x[2]

\* `if severity == "danger": continue`
SkipPair_Never(severity) == FALSE
SkipPair(severity) == severity = "danger"

RECURSIVE PairsOfDoe(_, _)
\* The inner loop: the entries of doe d with the bucks of the sequence.
PairsOfDoe(d, bucks) ==
    IF bucks = << >> THEN << >>
    ELSE LET b == Head(bucks)
             severity == assess_inbreeding(rabbits[d].name, rabbits[b].name).severity
         IN  (IF SkipPair(severity) THEN << >>
              ELSE <<[score |-> PairScore(d, b, severity), doe |-> rabbits[d].name,
                      buck |-> rabbits[b].name, severity |-> severity]>>)
             \o PairsOfDoe(d, Tail(bucks))

RECURSIVE PairsOfDoes(_, _)
\* The outer loop.
PairsOfDoes(does, bucks) ==
    IF does = << >> THEN << >>
    ELSE PairsOfDoe(Head(does), bucks) \o PairsOfDoes(Tail(does), bucks)

RECURSIVE InsertByScore(_, _)
\* e goes behind every entry whose score is not smaller than its own.
InsertByScore(e, sorted) ==
    IF sorted = << >> THEN <<e>>
    ELSE IF ScoreLess(Head(sorted).score, e.score) THEN <<e>> \o sorted
    ELSE <<Head(sorted)>> \o InsertByScore(e, Tail(sorted))

SortByScore_None(results, n) == results
RECURSIVE SortByScore(_, _)
\* results.sort(key=score, reverse=True): a stable sort, entries of equal
\* score keep their order.
SortByScore(results, n) ==
    IF n = 0 THEN << >>
    ELSE InsertByScore(results[n], SortByScore(results, n - 1))

\* results[:limit], limit >= 0
Slice_All(results, limit) == results
Slice(results, limit) ==
    SubSeq(results, 1, IF limit < Len(results) THEN limit ELSE Len(results))

\* suggest_breeding_pairs(limit)
suggest_breeding_pairs(limit) ==
    LET does == ActiveOfSex("F")
        bucks == ActiveOfSex("M")
    IN  IF does = << >> \/ bucks = << >> THEN << >>
        ELSE LET results == PairsOfDoes(does, bucks)
             IN  Slice(SortByScore(results, Len(results)), limit)

SuggestPairs(limit) ==
    /\ ret' = Call("suggest_breeding_pairs", <<limit>>, suggest_breeding_pairs(limit))
    /\ UNCHANGED <<rabbits, breedings, today, ticks, books>>

\* --------------------------------------------------------------- handlers
\* is_owner(update), with OWNER_ID set to a non-zero id.
is_owner_Open(user) == TRUE
is_owner(user) == user = OWNER_ID

\* The words that follow the command in the message text (parts[1:]).
ArgListsOver(S) == {<< >>} \cup {<<a>> : a \in S} \cup {<<a, b>> : a \in S, b \in S}
ArgLists == ArgListsOver(Names)

\* checkpair_cmd
CheckPairCmd(user, args) ==
    /\ ret' = Call("checkpair_cmd", args,
                   IF ~is_owner(user) THEN "This bot is private."
                   ELSE IF Len(args) < 2 THEN "Usage"
                   ELSE assess_inbreeding(args[1], args[2]).wording)
    /\ UNCHANGED <<rabbits, breedings, today, ticks, books>>

\* breed_cmd: `if severity == "danger": ... return`.
DangerBlocks_Off(severity) == FALSE
DangerBlocks(severity) == severity = "danger"

\* breed_cmd
BreedCmd(user, args, cap) ==
    /\ IF ~is_owner(user)
       THEN /\ ret' = Call("breed_cmd", args, "This bot is private.")
            /\ UNCHANGED breedings
       ELSE IF Len(args) < 2
       THEN /\ ret' = Call("breed_cmd", args, "Usage")
            /\ UNCHANGED breedings
       ELSE LET v == assess_inbreeding(args[1], args[2]) IN
            IF v.severity = "error"
            THEN /\ ret' = Call("breed_cmd", args, v.wording)
                 /\ UNCHANGED breedings
            ELSE IF DangerBlocks(v.severity)
            THEN /\ ret' = Call("breed_cmd", args, "Breeding blocked.")
                 /\ UNCHANGED breedings
            ELSE /\ add_breeding_result(args[1], args[2]) = "bred" => Len(breedings) < cap
                 /\ breedings' = add_breeding_rows(args[1], args[2])
                 /\ ret' = Call("breed_cmd", args, add_breeding_result(args[1], args[2]))
    /\ UNCHANGED <<rabbits, today, ticks, books>>

\* forcebreed_cmd
ForceBreedCmd(user, args, cap) ==
    /\ IF ~is_owner(user)
       THEN /\ ret' = Call("forcebreed_cmd", args, "This bot is private.")
            /\ UNCHANGED breedings
       ELSE IF Len(args) < 2
       THEN /\ ret' = Call("forcebreed_cmd", args, "Usage")
            /\ UNCHANGED breedings
       ELSE LET v == assess_inbreeding(args[1], args[2]) IN
            IF v.severity = "error"
            THEN /\ ret' = Call("forcebreed_cmd", args, v.wording)
                 /\ UNCHANGED breedings
            ELSE /\ add_breeding_result(args[1], args[2]) = "bred" => Len(breedings) < cap
                 /\ breedings' = add_breeding_rows(args[1], args[2])
                 /\ ret' = Call("forcebreed_cmd", args, add_breeding_result(args[1], args[2]))
    /\ UNCHANGED <<rabbits, today, ticks, books>>

\* ------------------------------------------------- the daily summary
\* context.job_queue is None: the application was built without a job queue.
NO_JOB_QUEUE == <<"None">>

RECURSIVE WithoutJobs(_, _)
\* for job in get_jobs_by_name(job_name): job.schedule_removal()
\* takes every job of that name out of the queue.
WithoutJobs_Kept(queue, job_name) == queue
WithoutJobs(queue, job_name) ==
    IF queue = << >> THEN << >>
    ELSE (IF Head(queue) = job_name THEN << >> ELSE <<Head(queue)>>)
         \o WithoutJobs(Tail(queue), job_name)

\* subscribe_cmd; the job of a chat has the name daily_<chat_id>, which the
\* model writes as the chat id.
SubscribeCmd(user, chat_id) ==
    /\ IF ~is_owner(user)
       THEN /\ ret' = Call("subscribe_cmd", <<user, chat_id>>, "This bot is private.")
            /\ UNCHANGED jobs
       ELSE IF jobs = NO_JOB_QUEUE
       THEN /\ ret' = Call("subscribe_cmd", <<user, chat_id>>,
                           "Job system is not available")
            /\ UNCHANGED jobs
       ELSE /\ jobs' = Append(WithoutJobs(jobs, chat_id), chat_id)
            /\ ret' = Call("subscribe_cmd", <<user, chat_id>>, "Subscribed")
    /\ UNCHANGED <<rabbits, breedings, today, ticks, sales, expenses, feed_logs,
                   achievements, weights, notes, conv, user_data>>

\* unsubscribe_cmd
UnsubscribeCmd(user, chat_id) ==
    /\ IF ~is_owner(user)
       THEN /\ ret' = Call("unsubscribe_cmd", <<user, chat_id>>, "This bot is private.")
            /\ UNCHANGED jobs
       ELSE IF jobs = NO_JOB_QUEUE
       THEN /\ ret' = Call("unsubscribe_cmd", <<user, chat_id>>,
                           "Job system is not available")
            /\ UNCHANGED jobs
       ELSE IF WithoutJobs(jobs, chat_id) = jobs
       THEN /\ ret' = Call("unsubscribe_cmd", <<user, chat_id>>, "You are not subscribed.")
            /\ UNCHANGED jobs
       ELSE /\ jobs' = WithoutJobs(jobs, chat_id)
            /\ ret' = Call("unsubscribe_cmd", <<user, chat_id>>, "Unsubscribed")
    /\ UNCHANGED <<rabbits, breedings, today, ticks, sales, expenses, feed_logs,
                   achievements, weights, notes, conv, user_data>>

\* 09:00 of the next day: the queue runs daily_job once for every job it
\* holds; the result lists the chats the summaries go to.
RunDailyJobs ==
    /\ jobs # NO_JOB_QUEUE
    /\ ticks < MaxTicks
    /\ today' = today + 1
    /\ ticks' = ticks + 1
    /\ ret' = Call("daily_job", << >>, jobs)
    /\ UNCHANGED <<rabbits, breedings, books>>

\* ------------------------------------------------------------ settings
\* str(t) of the float that /settemp parsed from a whole number of degrees.
FloatStr(t) == ToString(t) \o ".0"

\* INSERT INTO settings(key, value) ... ON CONFLICT(key) DO UPDATE SET value
set_setting(key, value) ==
    IF \E i \in 1..Len(settings) : settings[i].key = key
    THEN [i \in 1..Len(settings) |->
             IF settings[i].key = key THEN [key |-> key, value |-> value]
             ELSE settings[i]]
    ELSE Append(settings, [key |-> key, value |-> value])

\* ---------------------------------------------------------- the dispatcher
\* Application.process_update takes the next update from the queue; the
\* handlers of one update have finished before the next one is taken.  ret
\* holds the sender and the chat of the update that is being routed.
GetUpdate(user, chat_id) ==
    /\ ret.op # "update"
    /\ ret' = Call("update", <<user, chat_id>>, "pending")
    /\ UNCHANGED <<rabbits, breedings, today, ticks, books>>

\* update.effective_user.id and update.effective_chat.id
Pending == ret.op = "update"
Sender == ret.args[1]
ChatOf == ret.args[2]

\* A handler that answers and writes nothing.
Replied(handler, text) ==
    /\ ret' = Call(handler, ret.args, text)
    /\ UNCHANGED <<rabbits, breedings, today, ticks, books>>

\* `if not await ensure_owner(update, context): return` in front of the
\* body of a command handler.
OwnerOnly(handler, body) ==
    /\ Pending
    /\ IF is_owner(Sender) THEN body ELSE Replied(handler, "This bot is private.")

\* setcage_cmd .. settemp_cmd: the usage check, the number check where the
\* handler has one, and the call of the repository function.
SetCageCmd(names) ==
    OwnerOnly("setcage_cmd",
              \/ Replied("setcage_cmd", "Usage")
              \/ \E name \in names, cage \in Cages, section \in Sections :
                    SetCageSection(name, cage, section))

SetParentsCmd(names) ==
    OwnerOnly("setparents_cmd",
              \/ Replied("setparents_cmd", "Usage")
              \/ \E child \in names, mother \in names, father \in names :
                    UpdateRabbitParents(child, mother, father))

MarkDeadCmd(names) ==
    OwnerOnly("markdead_cmd",
              \/ Replied("markdead_cmd", "Usage")
              \/ \E name \in names : MarkDead(name))

KindlingCmd(names) ==
    OwnerOnly("kindling_cmd",
              \/ Replied("kindling_cmd", "Usage")
              \/ Replied("kindling_cmd", "LITTER_SIZE must be a number.")
              \/ \E doe \in names, n \in LitterSizes, l \in LitterNames \cup {NO_ARG} :
                    RecordKindling(doe, n, l))

LitterNameCmd(names) ==
    OwnerOnly("littername_cmd",
              \/ Replied("littername_cmd", "Usage")
              \/ \E doe \in names, l \in LitterNames : SetLitterName(doe, l))

HealthCmd(names, cap) ==
    OwnerOnly("health_cmd",
              \/ Replied("health_cmd", "Usage")
              \/ \E name \in names, note \in HealthNotes :
                    AddHealthRecord(name, note, cap))

WeightCmd(names, cap) ==
    OwnerOnly("weight_cmd",
              \/ Replied("weight_cmd", "Usage")
              \/ Replied("weight_cmd", "KG must be a number.")
              \/ \E name \in names, w \in RecordWeights : AddWeight(name, w, cap))

SellCmd(names, cap) ==
    OwnerOnly("sell_cmd",
              \/ Replied("sell_cmd", "Usage")
              \/ Replied("sell_cmd", "PRICE must be a number.")
              \/ \E name \in names, price \in Prices, buyer \in Buyers :
                    RecordSale(name, price, buyer, cap))

\* expense_cmd and electric_cmd both end in add_expense.
ExpenseCmd(handler, cap) ==
    OwnerOnly(handler,
              \/ Replied(handler, "Usage")
              \/ Replied(handler, "AMOUNT must be a number.")
              \/ \E amount \in Amounts : AddExpense(amount, cap))

FeedCmd(cap) ==
    OwnerOnly("feed_cmd",
              \/ Replied("feed_cmd", "Usage")
              \/ Replied("feed_cmd", "KG and COST must be numbers.")
              \/ \E kg \in FeedKgs, cost \in FeedCosts : AddFeed(kg, cost, cap))

RemindCmd(cap) ==
    OwnerOnly("remind_cmd",
              \/ Replied("remind_cmd", "Usage")
              \/ Replied("remind_cmd", "Date must be in YYYY-MM-DD format.")
              \/ \E day \in TaskDays, title \in TaskTitles :
                    Len(tasks) < cap /\ AddTask(day, title))

DoneTaskCmd ==
    OwnerOnly("donetask_cmd",
              \/ Replied("donetask_cmd", "Usage")
              \/ Replied("donetask_cmd", "ID must be a number.")
              \/ \E task_id \in TaskIdArgs : MarkTaskDone(task_id))

SetTempCmd ==
    OwnerOnly("settemp_cmd",
              \/ Replied("settemp_cmd", "Usage")
              \/ Replied("settemp_cmd", "Temperature must be a number")
              \/ \E t \in Temps :
                    /\ settings' = set_setting("last_temp_c", FloatStr(t))
                    /\ ret' = Call("settemp_cmd", ret.args, "Temperature set")
                    /\ UNCHANGED <<rabbits, breedings, today, ticks, sales, expenses,
                                   feed_logs, achievements, weights, health_records,
                                   tasks, chat>>)

\* photo_upload_handler: a photo without caption is answered with a hint.
PhotoUploadHandler(names) ==
    OwnerOnly("photo_upload_handler",
              \/ Replied("photo_upload_handler", "Please write the rabbit's NAME")
              \/ \E name \in names, file_id \in FileIds : SetRabbitPhoto(name, file_id))

\* The handlers that start with ensure_owner and only read: /start, /help,
\* /rabbits, /active, /litters, /nextdue, /today, /weaning, /suggestbreed,
\* /healthlog, /weightlog, /growth, /growthchart, the /profit and /feed
\* reports, the exports, /backupdb, /tasklist, /info, /stats, /farmsummary,
\* /tree, /lineperformance, /keep, /climatealert, /photo, /achievements.
ReadCmd == OwnerOnly("read_cmd", Replied("read_cmd", "report"))

\* whoami_cmd, menu_cmd (no owner_guard is defined) and menu_callback have
\* no owner check.  They answer with a text; the Achievements button calls
\* get_achievements, which the module does not define.
OpenCmd ==
    /\ Pending
    /\ \E h \in {"whoami_cmd", "menu_cmd", "menu_callback"} :
          \E text \in {"reply"} \cup (IF h = "menu_callback" THEN {"NameError"} ELSE {}) :
             Replied(h, text)

\* An update that no registered handler accepts, such as a text message
\* outside a conversation.
Unhandled ==
    /\ Pending
    /\ Replied("unhandled", "None")

\* ------------------------------------------------- the /addrabbit wizard
\* ConversationHandler.check_update: the handlers of a group are asked in
\* the order of registration, and a conversation handler that holds a state
\* for (chat, user) accepts text messages and /cancel, one that holds none
\* accepts /addrabbit.  0 stands for no handler.
InConversation(h, chat_id, user) == conv[<<h, chat_id, user>>] # END

StateHandler(chat_id, user) ==
    IF InConversation(1, chat_id, user) THEN 1
    ELSE IF InConversation(2, chat_id, user) THEN 2 ELSE 0

EntryHandler(chat_id, user) ==
    IF ~InConversation(1, chat_id, user) THEN 1
    ELSE IF ~InConversation(2, chat_id, user) THEN 2 ELSE 0

\* The handler h of (chat, user) goes to state.
Goes(h, chat_id, user, state) == [conv EXCEPT ![<<h, chat_id, user>>] = state]

WizardFrame == <<rabbits, breedings, today, ticks, sales, expenses, feed_logs,
                 achievements, weights, notes, jobs>>

\* addrabbit_start
AddrabbitStart(user, chat_id) ==
    LET h == EntryHandler(chat_id, user) IN
    /\ h # 0
    /\ IF ~is_owner(user)
       THEN /\ conv' = Goes(h, chat_id, user, END)
            /\ ret' = Call("addrabbit_start", <<user, chat_id>>, "This bot is private.")
       ELSE /\ conv' = Goes(h, chat_id, user, "ADD_NAME")
            /\ ret' = Call("addrabbit_start", <<user, chat_id>>, "Send the name")
    /\ UNCHANGED <<WizardFrame, user_data>>

\* The four steps that keep the answer in context.user_data and ask for the
\* next one; accepted is the value kept, REFUSED when the handler does not
\* take the text and repeats its question.
REFUSED == "<refused>"

AddrabbitStep(handler, state, next, user, chat_id, text, field, accepted) ==
    LET h == StateHandler(chat_id, user) IN
    /\ h # 0
    /\ conv[<<h, chat_id, user>>] = state
    /\ IF ~is_owner(user)
       THEN /\ conv' = Goes(h, chat_id, user, END)
            /\ ret' = Call(handler, <<user, chat_id, text>>, "This bot is private.")
            /\ UNCHANGED user_data
       ELSE IF accepted = REFUSED
       THEN /\ ret' = Call(handler, <<user, chat_id, text>>, "Please send")
            /\ UNCHANGED <<conv, user_data>>
       ELSE /\ user_data' = [user_data EXCEPT ![user][field] = accepted]
            /\ conv' = Goes(h, chat_id, user, next)
            /\ ret' = Call(handler, <<user, chat_id, text>>, "kept")
    /\ UNCHANGED WizardFrame

\* addrabbit_name: name = update.message.text.strip()
AddrabbitName(user, chat_id, text) ==
    AddrabbitStep("addrabbit_name", "ADD_NAME", "ADD_SEX", user, chat_id, text,
                  "name", text)

\* addrabbit_sex: sex = text.strip().upper(); `if sex not in ("M", "F")`
Upper(text) == IF text = "f" THEN "F" ELSE IF text = "m" THEN "M" ELSE text

AddrabbitSex(user, chat_id, text) ==
    AddrabbitStep("addrabbit_sex", "ADD_SEX", "ADD_CAGE", user, chat_id, text,
                  "sex", IF Upper(text) \in {"M", "F"} THEN Upper(text) ELSE REFUSED)

\* addrabbit_cage
AddrabbitCage(user, chat_id, text) ==
    AddrabbitStep("addrabbit_cage", "ADD_CAGE", "ADD_SECTION", user, chat_id, text,
                  "cage", text)

\* addrabbit_section: `if text.lower() == "skip"` keeps None.
AddrabbitSection(user, chat_id, text) ==
    AddrabbitStep("addrabbit_section", "ADD_SECTION", "ADD_WEIGHT", user, chat_id,
                  text, "section", IF text = "skip" THEN NULL_TEXT ELSE text)

\* float(text.replace(",", ".")) of the texts the callers send, in grams;
\* any other text raises ValueError.
WeightOfText == [t \in {"1", "2"} |-> IF t = "1" THEN 1000 ELSE 2000]

\* The rabbit table after add_rabbit and, `if cage:`, set_cage_section.
RowOf(rows, name) == CHOOSE i \in 1..Len(rows) : rows[i].name = name

WithCage(rows, name, cage, section) ==
    IF cage = NULL_TEXT THEN rows
    ELSE [rows EXCEPT ![RowOf(rows, name)].cage = cage,
                      ![RowOf(rows, name)].section = section]

\* addrabbit_weight: the step that calls add_rabbit, set_cage_section and
\* add_weight.  A NameError of add_rabbit ends the handler after the INSERT
\* was committed; the conversation then stays in ADD_WEIGHT.
AddrabbitWeight(user, chat_id, text, cap) ==
    LET h == StateHandler(chat_id, user)
        name == user_data[user].name
        sex == user_data[user].sex
        cage == user_data[user].cage
        section == user_data[user].section
        added == Append(rabbits, NewRabbit(name, sex))
    IN
    /\ h # 0
    /\ conv[<<h, chat_id, user>>] = "ADD_WEIGHT"
    /\ IF ~is_owner(user)
       THEN /\ conv' = Goes(h, chat_id, user, END)
            /\ ret' = Call("addrabbit_weight", <<user, chat_id, text>>,
                           "This bot is private.")
            /\ UNCHANGED <<rabbits, weights>>
       ELSE IF text # "skip" /\ text \notin DOMAIN WeightOfText
       THEN /\ ret' = Call("addrabbit_weight", <<user, chat_id, text>>,
                           "Please send a number")
            /\ UNCHANGED <<conv, rabbits, weights>>
       ELSE IF name = NULL_TEXT \/ sex = NULL_TEXT
       THEN /\ conv' = Goes(h, chat_id, user, END)
            /\ ret' = Call("addrabbit_weight", <<user, chat_id, text>>,
                           "Something went wrong")
            /\ UNCHANGED <<rabbits, weights>>
       ELSE IF UniqueViolated(name) \/ SexCheckViolated(sex)
       THEN /\ conv' = Goes(h, chat_id, user, END)
            /\ ret' = Call("addrabbit_weight", <<user, chat_id, text>>,
                           "already exists")
            /\ UNCHANGED <<rabbits, weights>>
       ELSE IF AddRabbitRaises(Len(added))
       THEN /\ rabbits' = added
            /\ ret' = Call("addrabbit_weight", <<user, chat_id, text>>, "NameError")
            /\ UNCHANGED <<conv, weights>>
       ELSE /\ rabbits' = WithCage(added, name, cage, section)
            /\ IF text = "skip"
               THEN UNCHANGED weights
               ELSE /\ Len(weights) < cap
                    /\ weights' =
                          InsertRow(weights,
                                    [rabbit_id |-> RowOf(added, name),
                                     weigh_date |-> Strftime(today),
                                     weight_g |-> WeightOfText[text]])
            /\ conv' = Goes(h, chat_id, user, END)
            /\ ret' = Call("addrabbit_weight", <<user, chat_id, text>>, "added")
    /\ UNCHANGED <<breedings, today, ticks, sales, expenses, feed_logs, achievements,
                   notes, jobs, user_data>>

\* addrabbit_cancel, the fallback /cancel: it has no owner check.
AddrabbitCancel(user, chat_id) ==
    LET h == StateHandler(chat_id, user) IN
    /\ h # 0
    /\ conv' = Goes(h, chat_id, user, END)
    /\ ret' = Call("addrabbit_cancel", <<user, chat_id>>, "Add-rabbit cancelled.")
    /\ UNCHANGED <<WizardFrame, user_data>>

\* The system clock moves on between two calls.
Tick ==
    /\ ticks < MaxTicks
    /\ today' = today + 1
    /\ ticks' = ticks + 1
    /\ ret' = Call("idle", << >>, "None")
    /\ UNCHANGED <<rabbits, breedings, books>>

\* The names a caller enters next: one that is stored already, or the first
\* of NameSeq that is not.
KnownNamesOf(seq) == {seq[i] : i \in {j \in 1..Len(seq) : j <= Len(rabbits) + 1}}
KnownNames == KnownNamesOf(NameSeq)

Next ==
    \/ \E name \in KnownNames : \E sex \in {SexOf[name], "X"} : AddRabbit(name, sex)
    \/ \E doe \in Names, buck \in Names : AddBreeding(doe, buck, MaxBreedings)
    \/ \E doe \in Names, n \in LitterSizes, l \in LitterNames \cup {NO_ARG} :
          RecordKindling(doe, n, l)
    \/ \E doe \in Names, l \in LitterNames : SetLitterName(doe, l)
    \/ Tick

Spec == Init /\ [][Next]_vars

FeedPeriods ==
    { <<"2", "0", "2", "3">>, <<"2", "0", "2", "3", "-", "1", "2">>,
      <<"2", "0", "x", "3">>, <<"2", "0", "2", "3", "-", "1", "x">>, NO_PERIOD }

\* The books of one rabbit's sales, the expenses and the feed (MaxBookRows
\* rows in all), and the reports over them, around the end of a month and
\* the end of a year.
InitBooks ==
    /\ rabbits = << >>
    /\ breedings = << >>
    /\ today \in BookStartDays
    /\ ticks = 0
    /\ ret = Call("init_db", << >>, "None")
    /\ sales = << >>
    /\ expenses = << >>
    /\ feed_logs = << >>
    /\ achievements = << >>
    /\ weights = << >>
    /\ health_records = << >>
    /\ tasks = << >>
    /\ jobs = << >>
    /\ conv = NoConversations
    /\ user_data = NoUserData
    /\ settings = << >>

NextBooks ==
    \/ \E name \in KnownNamesOf(<<"A">>) : AddRabbit(name, SexOf[name])
    \/ \E price \in BookPrices, buyer \in Buyers : RecordSale("A", price, buyer, MaxBookRows - Len(expenses) - Len(feed_logs))
    \/ \E amount \in Amounts : AddExpense(amount, MaxBookRows - Len(sales) - Len(feed_logs))
    \/ \E kg \in FeedKgs, cost \in FeedCosts : AddFeed(kg, cost, MaxBookRows - Len(sales) - Len(expenses))
    \/ \E period \in GoodPeriods \cup BadPeriods \cup {NO_PERIOD} : ProfitSummary(period)
    \/ \E period \in FeedPeriods : FeedStats(period)
    \/ Tick

SpecBooks == InitBooks /\ [][NextBooks]_vars

\* Four rabbits with pedigrees, deaths, sales and the litters of one doe,
\* and the pair suggestions over them.
NextPairs ==
    \/ \E name \in KnownNamesOf(PairNameSeq) : AddRabbit(name, SexOf[name])
    \/ \E t \in PairParents : UpdateRabbitParents(t[1], t[2], t[3])
    \/ \E name \in {"A", "D"} : MarkDead(name)
    \/ \E price \in Prices, buyer \in Buyers : RecordSale("A", price, buyer, MaxSales)
    \/ AddBreeding("C", "B", MaxBreedings)
    \/ \E n \in LitterSizes : RecordKindling("C", n, NO_ARG)
    \/ \E limit \in Limits : SuggestPairs(limit)

SpecPairs == Init /\ [][NextPairs]_vars

\* Breedings, kindlings and the daily question which litters are due, with
\* a day, 30 days or 31 days between calls.
NextDue ==
    \/ \E name \in KnownNames : AddRabbit(name, SexOf[name])
    \/ \E doe \in {"A", "C"}, buck \in {"B"} : AddBreeding(doe, buck, MaxBreedings)
    \/ \E doe \in {"A", "C"}, n \in LitterSizes : RecordKindling(doe, n, NO_ARG)
    \/ GetDueToday
    \/ \E n \in DaySteps : DaysPass(n)

SpecDue == Init /\ [][NextDue]_vars

\* Sales and deaths of the stored rabbits.
NextSales ==
    \/ \E name \in KnownNames : AddRabbit(name, SexOf[name])
    \/ \E name \in Names, price \in Prices, buyer \in Buyers :
          RecordSale(name, price, buyer, MaxSales)
    \/ \E name \in Names : MarkDead(name)
    \/ Tick

SpecSales == Init /\ [][NextSales]_vars

\* The pedigree: rabbits, any parent assignment, and /checkpair.
NextKin ==
    \/ \E name \in KnownNames : AddRabbit(name, SexOf[name])
    \/ \E child \in Names, mother \in Names, father \in Names :
          UpdateRabbitParents(child, mother, father)
    \/ \E user \in Users, args \in ArgLists : CheckPairCmd(user, args)

SpecKin == Init /\ [][NextKin]_vars

\* Pedigrees of four rabbits in which at most MaxParented rabbits have
\* registered parents, and /checkpair.
NextSiblings ==
    \/ \E name \in KnownNamesOf(MoreNameSeq) : AddRabbit(name, SexOf[name])
    \/ \E child \in MoreNames, mother \in MoreNames, father \in MoreNames :
          /\ Cardinality({r \in RabbitIds : rabbits[r].mother_id # NULL_ID
                                             \/ r = get_rabbit(child)}) <= MaxParented
          /\ UpdateRabbitParents(child, mother, father)
    \/ \E user \in Users, args \in ArgListsOver(MoreNames) : CheckPairCmd(user, args)

SpecSiblings == Init /\ [][NextSiblings]_vars

\* The breeding commands, over pedigrees whose mothers are entered as does
\* and whose fathers are entered as bucks.
NextBreedCmd ==
    \/ \E name \in KnownNames : AddRabbit(name, SexOf[name])
    \/ \E child \in Names, mother \in Names, father \in Names :
          /\ SexOf[mother] = "F"
          /\ SexOf[father] = "M"
          /\ UpdateRabbitParents(child, mother, father)
    \/ \E user \in Users, args \in ArgLists : BreedCmd(user, args, MaxKinBreedings)
    \/ \E user \in Users, args \in ArgLists : ForceBreedCmd(user, args, MaxKinBreedings)

SpecBreedCmd == Init /\ [][NextBreedCmd]_vars

\* The records kept per rabbit and the books, MaxRecords rows in all; the
\* callers name the rabbit that is entered or one that is not stored.
RecordRows ==
    Len(health_records) + Len(weights) + Len(sales) + Len(expenses)
        + Len(feed_logs) + Len(breedings)
RoomFor(rows) == MaxRecords - (RecordRows - Len(rows))

NextRecords ==
    \/ \E name \in KnownNamesOf(RecordNameSeq) : AddRabbit(name, SexOf[name])
    \/ \E name \in RecordNames, cage \in Cages, section \in Sections :
          SetCageSection(name, cage, section)
    \/ \E name \in RecordNames, f \in FileIds : SetRabbitPhoto(name, f)
    \/ \E name \in RecordNames : MarkDead(name)
    \/ \E name \in RecordNames, price \in Prices, buyer \in Buyers :
          RecordSale(name, price, buyer, RoomFor(sales))
    \/ \E name \in RecordNames, note \in HealthNotes :
          AddHealthRecord(name, note, RoomFor(health_records))
    \/ \E name \in RecordNames, w \in RecordWeights : AddWeight(name, w, RoomFor(weights))
    \/ \E doe \in RecordNames, buck \in RecordNames :
          AddBreeding(doe, buck, RoomFor(breedings))
    \/ \E doe \in RecordNames, n \in LitterSizes : RecordKindling(doe, n, NO_ARG)
    \/ \E amount \in Amounts : AddExpense(amount, RoomFor(expenses))
    \/ \E kg \in FeedKgs, cost \in FeedCosts : AddFeed(kg, cost, RoomFor(feed_logs))
    \/ Tick

SpecRecords == Init /\ [][NextRecords]_vars

\* Tasks are added and marked done, by ids that exist and ids that do not.
NextTasks ==
    \/ \E d \in TaskDays, title \in TaskTitles : AddTask(d, title)
    \/ \E id \in TaskIdArgs : MarkTaskDone(id)
    \/ Tick

SpecTasks == Init /\ [][NextTasks]_vars

\* A rabbit that was weighed once on one day and on with every further
\* record on the next, WEIGHT_LOG_LIMIT records in all.
LongLog ==
    [i \in 1..WEIGHT_LOG_LIMIT |->
        [rabbit_id |-> 1,
         weigh_date |-> Strftime(IF i = 1 THEN 28 ELSE 29),
         weight_g |-> IF i = 1 THEN 1200 ELSE 1000]]

\* The bot starts on an empty database, or on one that holds the long log
\* of rabbit A; the clock has moved while the long log was written.
InitGrowth ==
    \/ Init
    \/ /\ rabbits = <<NewRabbit("A", "F")>>
       /\ breedings = << >>
       /\ today = 29
       /\ ticks = MaxTicks
       /\ ret = Call("init_db", << >>, "None")
       /\ sales = << >>
       /\ expenses = << >>
       /\ feed_logs = << >>
       /\ achievements = << >>
       /\ weights = LongLog
       /\ health_records = << >>
       /\ tasks = << >>
       /\ jobs = << >>
       /\ conv = NoConversations
       /\ user_data = NoUserData
       /\ settings = << >>

\* Short logs grow to MaxWeights rows and the long log by one row.
WeightCap ==
    IF Len(weights) >= WEIGHT_LOG_LIMIT THEN WEIGHT_LOG_LIMIT + 1 ELSE MaxWeights

\* Two rabbits are weighed, several times a day and on several days, and
\* their growth is asked for.
NextGrowth ==
    \/ \E name \in KnownNamesOf(<<"A", "B">>) : AddRabbit(name, SexOf[name])
    \/ \E name \in {"A", "B"}, w \in WeightsG : AddWeight(name, w, WeightCap)
    \/ \E name \in {"A", "B"} : GrowthStats(name)
    \/ \E n \in DaySteps : DaysPass(n)

SpecGrowth == InitGrowth /\ [][NextGrowth]_vars

\* The application is built with or without a job queue.
InitSubscribe ==
    /\ rabbits = << >>
    /\ breedings = << >>
    /\ today \in StartDays
    /\ ticks = 0
    /\ ret = Call("init_db", << >>, "None")
    /\ sales = << >>
    /\ expenses = << >>
    /\ feed_logs = << >>
    /\ achievements = << >>
    /\ weights = << >>
    /\ health_records = << >>
    /\ tasks = << >>
    /\ jobs \in {<< >>, NO_JOB_QUEUE}
    /\ conv = NoConversations
    /\ user_data = NoUserData
    /\ settings = << >>

\* /subscribe and /unsubscribe from three chats, by the owner and by a
\* stranger, and the daily run of the queue.
NextSubscribe ==
    \/ \E user \in Users, chat_id \in SubscribeChats : SubscribeCmd(user, chat_id)
    \/ \E user \in Users, chat_id \in SubscribeChats : UnsubscribeCmd(user, chat_id)
    \/ RunDailyJobs

SpecSubscribe == InitSubscribe /\ [][NextSubscribe]_vars

\* Every function that writes table rabbits, on two stored rabbits.
StatusNameSeq == <<"A", "B">>

NextStatus ==
    \/ \E name \in KnownNamesOf(StatusNameSeq) : AddRabbit(name, SexOf[name])
    \/ \E child \in {"A", "B", "C"}, father \in {"B", "C"} :
          UpdateRabbitParents(child, "A", father)
    \/ \E name \in {"A", "B", "C"} : SetCageSection(name, "c1", NULL_TEXT)
    \/ \E name \in {"A", "C"}, file_id \in FileIds : SetRabbitPhoto(name, file_id)
    \/ \E name \in {"A", "B", "C"}, price \in Prices, buyer \in Buyers :
          RecordSale(name, price, buyer, MaxSales)
    \/ \E name \in {"A", "B", "C"} : MarkDead(name)

SpecStatus == Init /\ [][NextStatus]_vars

\* Updates of the owner and of another user, in two chats.  The owner enters
\* rabbits through the wizard in chat1, mates them, subscribes chat1 and
\* sets a reminder; the other user sends every kind of update the application has
\* a handler for.
OwnerSends(chat_id) == Sender = OWNER_ID => ChatOf = chat_id
StrangerSends == Pending /\ Sender # OWNER_ID

NextOwner ==
    \/ \E user \in Users, chat_id \in Chats : GetUpdate(user, chat_id)
    \/ /\ Pending
       /\ OwnerSends("chat1")
       /\ Sender = OWNER_ID => ~InConversation(1, ChatOf, Sender)
       /\ AddrabbitStart(Sender, ChatOf)
    \/ Pending /\ \E text \in {"A", "B"} : AddrabbitName(Sender, ChatOf, text)
    \/ Pending /\ \E text \in {"F", "M"} : AddrabbitSex(Sender, ChatOf, text)
    \/ Pending /\ \E text \in {"c1"} : AddrabbitCage(Sender, ChatOf, text)
    \/ Pending /\ \E text \in {"skip"} : AddrabbitSection(Sender, ChatOf, text)
    \/ Pending /\ \E text \in {"skip"} : AddrabbitWeight(Sender, ChatOf, text, MaxWeights)
    \/ Pending /\ AddrabbitCancel(Sender, ChatOf)
    \/ Pending /\ OwnerSends("chat1") /\ SubscribeCmd(Sender, ChatOf)
    \/ Pending /\ OwnerSends("chat1") /\ UnsubscribeCmd(Sender, ChatOf)
    \/ RemindCmd(1)
    \/ StrangerSends /\ DoneTaskCmd
    \/ StrangerSends /\ SetCageCmd({"A"})
    \/ StrangerSends /\ SetParentsCmd({"A", "B"})
    \/ StrangerSends /\ MarkDeadCmd({"A"})
    \/ /\ Pending
       /\ \E args \in ArgListsOver({"A", "B"}) :
             \/ BreedCmd(Sender, args, 1)
             \/ ForceBreedCmd(Sender, args, 1)
             \/ CheckPairCmd(Sender, args)
    \/ StrangerSends /\ KindlingCmd({"A"})
    \/ StrangerSends /\ LitterNameCmd({"A"})
    \/ StrangerSends /\ HealthCmd({"A"}, MaxRecords)
    \/ StrangerSends /\ WeightCmd({"A"}, MaxWeights)
    \/ StrangerSends /\ SellCmd({"A"}, MaxSales)
    \/ StrangerSends /\ \E handler \in {"expense_cmd", "electric_cmd"} :
                           ExpenseCmd(handler, MaxBookRows)
    \/ StrangerSends /\ FeedCmd(MaxBookRows)
    \/ StrangerSends /\ SetTempCmd
    \/ StrangerSends /\ PhotoUploadHandler({"A"})
    \/ ReadCmd
    \/ OpenCmd
    \/ Unhandled

SpecOwner == Init /\ [][NextOwner]_vars

\* The wizard in two chats.  What is typed tells the chats apart: a name,
\* sex, cage or section that is typed in one chat is never typed in the
\* other.  /addrabbit is sent again during a conversation in chat1 only,
\* where it starts a conversation of the second handler.
TypedNames == [c \in Chats |-> IF c = "chat1" THEN {"A"} ELSE {"B"}]
TypedSexes == [c \in Chats |-> IF c = "chat1" THEN {"f"} ELSE {"M"}]
TypedCages == [c \in Chats |-> IF c = "chat1" THEN {"c1"} ELSE {"c2"}]
TypedSections == [c \in Chats |-> IF c = "chat1" THEN {"skip"} ELSE {"s2"}]
TypedWeights == [c \in Chats |-> IF c = "chat1" THEN {"skip", "x"} ELSE {"2"}]

NextWizard ==
    \/ \E user \in Users, chat_id \in Chats :
          /\ chat_id = "chat2" => ~InConversation(1, chat_id, user)
          /\ AddrabbitStart(user, chat_id)
    \/ \E user \in Users, chat_id \in Chats : \E text \in TypedNames[chat_id] :
          AddrabbitName(user, chat_id, text)
    \/ \E user \in Users, chat_id \in Chats : \E text \in TypedSexes[chat_id] :
          AddrabbitSex(user, chat_id, text)
    \/ \E user \in Users, chat_id \in Chats : \E text \in TypedCages[chat_id] :
          AddrabbitCage(user, chat_id, text)
    \/ \E user \in Users, chat_id \in Chats : \E text \in TypedSections[chat_id] :
          AddrabbitSection(user, chat_id, text)
    \/ \E user \in Users, chat_id \in Chats : \E text \in TypedWeights[chat_id] :
          AddrabbitWeight(user, chat_id, text, MaxWeights)
    \/ \E user \in Users, chat_id \in Chats : AddrabbitCancel(user, chat_id)

SpecWizard == Init /\ [][NextWizard]_vars

\* ------------------------------------------------------------------ claims
\* Every step of a specification is one call, whose name and name arguments
\* the step leaves in ret; the formulas below pick out the steps of an
\* operation by ret'.op and read the arguments from ret'.args.
Stored(name) == \E i \in RabbitIds : rabbits[i].name = name

IdOf(name) == CHOOSE i \in RabbitIds : rabbits[i].name = name

HasSex(name, sex) == Stored(name) /\ rabbits[IdOf(name)].sex = sex

\* C1: no two rabbits ever have the same name, and add_rabbit called with a
\* name that is stored already returns False and changes no stored record.
C1_UniqueNames ==
    /\ [](\A i, j \in RabbitIds : rabbits[i].name = rabbits[j].name => i = j)
    /\ [][ret'.op = "add_rabbit" =>
            \A sex \in Sexes :
                (AddRabbit(ret'.args[1], sex) /\ Stored(ret'.args[1]))
                    => /\ ret'.result = "False"
                       /\ rabbits' = rabbits
                       /\ breedings' = breedings]_vars

\* Every name of NameSeq is stored and the last call, an add_rabbit, was
\* refused: it was made with a name some rabbit has.
C1_Witness ==
    /\ Len(rabbits) = Len(NameSeq)
    /\ ret.op = "add_rabbit"
    /\ ret.result = "False"
    /\ Stored(ret.args[1])

\* C2: add_rabbit called with a name no stored rabbit has and a sex in
\* {M, F} returns True and stores an active rabbit with that name and sex.
C2_FreshCreateSucceeds ==
    [][ret'.op = "add_rabbit" =>
        \A sex \in {"M", "F"} :
            (AddRabbit(ret'.args[1], sex) /\ ~Stored(ret'.args[1]))
                => /\ ret'.result = "True"
                   /\ \E i \in 1..Len(rabbits') :
                         /\ rabbits'[i].name = ret'.args[1]
                         /\ rabbits'[i].sex = sex
                         /\ rabbits'[i].status = "active"]_vars

\* C3: every stored breeding has a Female doe and a Male buck; only
\* add_breeding adds a breeding and no step changes a stored rabbit's sex.
C3_BreedingSexes ==
    /\ [](\A b \in BreedingIds :
            /\ breedings[b].doe_id \in RabbitIds
            /\ breedings[b].buck_id \in RabbitIds
            /\ rabbits[breedings[b].doe_id].sex = "F"
            /\ rabbits[breedings[b].buck_id].sex = "M")
    /\ [][/\ \A i \in RabbitIds : i \in 1..Len(rabbits') /\ rabbits'[i].sex = rabbits[i].sex
          /\ Len(breedings') > Len(breedings) => ret'.op = "add_breeding"]_vars

\* A breeding has just been stored by add_breeding.
C3_Witness ==
    /\ ret.op = "add_breeding"
    /\ ret.result = "bred"
    /\ \E b \in BreedingIds :
          /\ rabbits[breedings[b].doe_id].name = ret.args[1]
          /\ rabbits[breedings[b].buck_id].name = ret.args[2]

\* C4 as claimed: add_breeding returns the sex-mismatch failure and stores
\* nothing whenever the doe named is Male or the buck named is Female, also
\* when the other name matches no rabbit.
C4_SexMismatchRegardless ==
    [][LET doe == ret'.args[1]
           buck == ret'.args[2]
       IN
        (/\ ret'.op = "add_breeding"
         /\ AddBreeding(doe, buck, MaxBreedings)
         /\ (HasSex(doe, "M") \/ HasSex(buck, "F")))
            => /\ ret'.result = "Sex mismatch"
               /\ breedings' = breedings]_vars

\* C4 amended: when the doe named is Male or the buck named is Female,
\* add_breeding stores nothing; it returns the sex-mismatch failure when both
\* names match a rabbit and the not-found failure when the other name
\* matches none.
C4_SexMismatchWhenResolved ==
    [][LET doe == ret'.args[1]
           buck == ret'.args[2]
       IN
        (/\ ret'.op = "add_breeding"
         /\ AddBreeding(doe, buck, MaxBreedings)
         /\ (HasSex(doe, "M") \/ HasSex(buck, "F")))
            => /\ breedings' = breedings
               /\ ret'.result = IF Stored(doe) /\ Stored(buck)
                                THEN "Sex mismatch" ELSE "Rabbit not found."]_vars

\* add_breeding has just refused a pair of stored rabbits whose doe is Male.
C4_Witness ==
    /\ ret.op = "add_breeding"
    /\ ret.result = "Sex mismatch"
    /\ HasSex(ret.args[1], "M")
    /\ Stored(ret.args[2])

\* C5: record_kindling for a stored doe none of whose breedings has a null
\* kindling date returns the no-open-breeding failure and changes nothing.
C5_NoOpenBreeding ==
    [][\A n \in LitterSizes, l \in LitterNames \cup {NO_ARG} :
       LET doe == ret'.args[1] IN
        (/\ ret'.op = "record_kindling"
         /\ RecordKindling(doe, n, l)
         /\ Stored(doe)
         /\ \A b \in BreedingIds :
               breedings[b].doe_id = IdOf(doe) => breedings[b].kindling_date # NULL_DATE)
            => /\ ret'.result = "No open breeding found for this doe."
               /\ rabbits' = rabbits
               /\ breedings' = breedings]_vars

\* The doe of the last record_kindling has exactly one breeding, closed by an
\* earlier record_kindling, and this second call was refused.
C5_Witness ==
    /\ ret.op = "record_kindling"
    /\ ret.result = "No open breeding found for this doe."
    /\ Stored(ret.args[1])
    /\ Cardinality({b \in BreedingIds : breedings[b].doe_id = IdOf(ret.args[1])}) = 1
    /\ \A b \in BreedingIds :
          breedings[b].doe_id = IdOf(ret.args[1]) => breedings[b].kindling_date # NULL_DATE

OpenCount(rows, doe) ==
    Cardinality({b \in 1..Len(rows) :
                    rows[b].doe_id = doe /\ rows[b].kindling_date = NULL_DATE})

\* C6: record_kindling for a doe with an open breeding closes exactly one
\* breeding, an open one of that doe with the most recent mating date: it
\* gets today as kindling date, the litter size, the weaning date and the
\* litter name when one is given; every other row stays as it was.
C6_ClosesLatestOpen ==
    [][\A n \in LitterSizes, l \in LitterNames \cup {NO_ARG} :
       LET doe == ret'.args[1] IN
        (/\ ret'.op = "record_kindling"
         /\ RecordKindling(doe, n, l)
         /\ Stored(doe)
         /\ OpenCount(breedings, IdOf(doe)) > 0)
            => /\ Len(breedings') = Len(breedings)
               /\ OpenCount(breedings', IdOf(doe)) = OpenCount(breedings, IdOf(doe)) - 1
               /\ \E b \in BreedingIds :
                     /\ breedings[b].doe_id = IdOf(doe)
                     /\ breedings[b].kindling_date = NULL_DATE
                     /\ \A c \in BreedingIds :
                           (breedings[c].doe_id = IdOf(doe)
                            /\ breedings[c].kindling_date = NULL_DATE)
                              => DateOrdinal(breedings[c].mating_date)
                                    <= DateOrdinal(breedings[b].mating_date)
                     /\ \A c \in BreedingIds \ {b} : breedings'[c] = breedings[c]
                     /\ breedings'[b].doe_id = breedings[b].doe_id
                     /\ breedings'[b].buck_id = breedings[b].buck_id
                     /\ breedings'[b].mating_date = breedings[b].mating_date
                     /\ breedings'[b].expected_due_date = breedings[b].expected_due_date
                     /\ breedings'[b].kindling_date # NULL_DATE
                     /\ DateOrdinal(breedings'[b].kindling_date) = today
                     /\ breedings'[b].litter_size = n
                     /\ breedings'[b].weaning_date # NULL_DATE
                     /\ DateOrdinal(breedings'[b].weaning_date) = today + 35
                     /\ breedings'[b].litter_name = (IF l = NO_ARG THEN NULL_TEXT ELSE l)
               /\ rabbits' = rabbits]_vars

\* The doe of the last record_kindling had two open breedings with different
\* mating dates: the later one is closed now and the earlier one still open.
C6_Witness ==
    /\ ret.op = "record_kindling"
    /\ ret.result \in {"Kindling recorded", "NameError"}
    /\ \E b, c \in BreedingIds :
          /\ breedings[b].doe_id = IdOf(ret.args[1])
          /\ breedings[c].doe_id = IdOf(ret.args[1])
          /\ breedings[b].kindling_date # NULL_DATE
          /\ DateOrdinal(breedings[b].kindling_date) = today
          /\ breedings[c].kindling_date = NULL_DATE
          /\ DateOrdinal(breedings[c].mating_date) < DateOrdinal(breedings[b].mating_date)

\* C7: every breeding is due exactly 31 days after its mating date; a
\* breeding with a kindling date has a weaning date exactly 35 days after it,
\* and a breeding without a kindling date has no weaning date.
C7_DueAndWeaningDates ==
    \A b \in BreedingIds :
        /\ DateOrdinal(breedings[b].expected_due_date)
              = DateOrdinal(breedings[b].mating_date) + 31
        /\ breedings[b].kindling_date # NULL_DATE
              => /\ breedings[b].weaning_date # NULL_DATE
                 /\ DateOrdinal(breedings[b].weaning_date)
                       = DateOrdinal(breedings[b].kindling_date) + 35
        /\ breedings[b].kindling_date = NULL_DATE
              => breedings[b].weaning_date = NULL_DATE

\* A closed breeding whose due date and weaning date both fall in the year
\* after the one of its mating.
C7_Witness ==
    \E b \in BreedingIds :
        /\ breedings[b].kindling_date # NULL_DATE
        /\ breedings[b].expected_due_date[1] = breedings[b].mating_date[1] + 1
        /\ breedings[b].weaning_date[1] = breedings[b].mating_date[1] + 1

\* p is the registered mother or the registered father of c.
IsParentOf(p, c) == rabbits[c].mother_id = p \/ rabbits[c].father_id = p

\* g is a registered parent of a registered parent of c.
IsGrandparentOf(g, c) == \E p \in RabbitIds : IsParentOf(g, p) /\ IsParentOf(p, c)

\* The severity the five rules give two names, first match first.
RuleSeverity(a, b) ==
    IF ~Stored(a) \/ ~Stored(b) \/ a = b THEN "error"
    ELSE LET x == IdOf(a)
             y == IdOf(b)
         IN  IF IsParentOf(x, y) \/ IsParentOf(y, x) THEN "danger"
             ELSE IF \E p \in RabbitIds : IsParentOf(p, x) /\ IsParentOf(p, y) THEN "danger"
             ELSE IF \E g \in RabbitIds : IsGrandparentOf(g, x) /\ IsGrandparentOf(g, y)
                  THEN "warning"
             ELSE "none"

\* C8: for every pedigree and every two names, assess_inbreeding returns the
\* severity of the first rule that matches: error (a name unresolved, or the
\* same rabbit), danger (parent and offspring), danger (a shared parent),
\* warning (a shared grandparent), none.
C8_SeverityByRule ==
    \A a \in MoreNames, b \in MoreNames :
        assess_inbreeding(a, b).severity = RuleSeverity(a, b)

\* /checkpair has just answered with the shared-grandparent warning for two
\* rabbits that share no parent.
C8_Witness ==
    /\ ret.op = "checkpair_cmd"
    /\ ret.result = "shared grandparent(s)"
    /\ Len(ret.args) = 2
    /\ RuleSeverity(ret.args[1], ret.args[2]) = "warning"
    /\ ~\E p \in RabbitIds : IsParentOf(p, IdOf(ret.args[1])) /\ IsParentOf(p, IdOf(ret.args[2]))

RegisteredParents(r) == {p \in RabbitIds : IsParentOf(p, r)}

\* C9: when two rabbits are siblings by the shared-parent rule, the message
\* says full siblings exactly when the registered parents of the one are the
\* registered parents of the other, and half-siblings exactly when they share
\* a parent without that.
C9_SiblingWording ==
    \A a \in MoreNames, b \in MoreNames :
        assess_inbreeding(a, b).wording \in {"full siblings", "half-siblings"}
            => (assess_inbreeding(a, b).wording = "full siblings"
                   <=> RegisteredParents(IdOf(a)) = RegisteredParents(IdOf(b)))

\* C10: /breed stores no breeding for a pair the rules make danger or error;
\* /forcebreed stores none for a pair they make error, and does store one for
\* a danger pair of a Female doe and a Male buck.
C10_BreedBlocksDanger ==
    [][LET doe == ret'.args[1]
           buck == ret'.args[2]
       IN
        /\ (/\ ret'.op = "breed_cmd"
            /\ Len(ret'.args) = 2
            /\ RuleSeverity(doe, buck) \in {"danger", "error"})
              => breedings' = breedings
        /\ (/\ ret'.op = "forcebreed_cmd"
            /\ Len(ret'.args) = 2
            /\ RuleSeverity(doe, buck) = "error")
              => breedings' = breedings
        /\ (/\ ret'.op = "forcebreed_cmd"
            /\ Len(ret'.args) = 2
            /\ ret'.result # "This bot is private."
            /\ RuleSeverity(doe, buck) = "danger"
            /\ HasSex(doe, "F")
            /\ HasSex(buck, "M"))
              => /\ Len(breedings') = Len(breedings) + 1
                 /\ rabbits[breedings'[Len(breedings')].doe_id].name = doe
                 /\ rabbits[breedings'[Len(breedings')].buck_id].name = buck]_vars

\* /breed has just refused a danger pair of a Female doe and a Male buck for
\* which a forced breeding is stored.
C10_Witness ==
    /\ ret.op = "breed_cmd"
    /\ ret.result = "Breeding blocked."
    /\ RuleSeverity(ret.args[1], ret.args[2]) = "danger"
    /\ HasSex(ret.args[1], "F")
    /\ HasSex(ret.args[2], "M")
    /\ \E b \in BreedingIds :
          /\ rabbits[breedings[b].doe_id].name = ret.args[1]
          /\ rabbits[breedings[b].buck_id].name = ret.args[2]
\* C11: a rabbit with a sale record is never active; record_sale on a stored
\* rabbit appends exactly one sale row for it and makes it sold in the same
\* step, and no step makes a rabbit that is not active active again.
C11_SoldNotActive ==
    [][/\ \A i \in 1..Len(sales') : rabbits'[sales'[i].rabbit_id].status # "active"
       /\ (ret'.op = "record_sale" /\ Stored(ret'.args[1]))
             => /\ Len(sales') = Len(sales) + 1
                /\ SubSeq(sales', 1, Len(sales)) = sales
                /\ sales'[Len(sales')].rabbit_id = IdOf(ret'.args[1])
                /\ rabbits'[IdOf(ret'.args[1])].status = "sold"
       /\ \A r \in RabbitIds :
             rabbits[r].status # "active" => rabbits'[r].status # "active"]_vars

\* A rabbit that was sold and then marked dead keeps its sale record.
C11_Witness ==
    /\ ret.op = "mark_dead"
    /\ \E i \in SaleIds : /\ rabbits[sales[i].rabbit_id].name = ret.args[1]
                          /\ rabbits[sales[i].rabbit_id].status = "dead"
\* C12: no domain operation ends with an unhandled exception: every call
\* returns a success value or one of its error messages.
C12_NoUnhandledException == ret.result # "NameError"
\* The rows of table achievements that hold a key.
UnlockRows(rows, key) == {i \in 1..Len(rows) : rows[i].key = key}

\* C13: a call of unlock_achievement("first_sale"), as record_sale makes for
\* every stored sale, leaves exactly one row for the key: the first call
\* stores it with the current date and a later call leaves row and date as
\* they are.
C13_UnlockOnce ==
    [][(ret'.op = "record_sale" /\ Stored(ret'.args[1]))
          => /\ Cardinality(UnlockRows(achievements', "first_sale")) = 1
             /\ \A i \in UnlockRows(achievements, "first_sale") :
                   achievements'[i] = achievements[i]]_vars
\* text begins with the characters of prefix.
StartsWith(text, prefix) ==
    Len(prefix) <= Len(text) /\ SubSeq(text, 1, Len(prefix)) = prefix

\* A 4-digit year, and a YYYY-MM month.
IsYearToken(P) == Len(P) = 4 /\ \A i \in 1..4 : IsDigitChar(P[i])
IsMonthToken(P) ==
    /\ Len(P) = 7
    /\ P[5] = "-"
    /\ \A i \in {1, 2, 3, 4, 6, 7} : IsDigitChar(P[i])

RECURSIVE SetSum(_, _)
\* The sum of f over the set S.
SetSum(f, S) ==
    IF S = {} THEN 0
    ELSE LET x == CHOOSE x \in S : TRUE IN f[x] + SetSum(f, S \ {x})

\* A missing amount counts as 0.
Amount(v) == IF v = NULL_INT THEN 0 ELSE v

\* The rows of a table whose date starts with P (all rows without a period).
InPeriod(rows, datecol, P) ==
    {i \in 1..Len(rows) : P = NO_PERIOD \/ StartsWith(IsoChars(rows[i][datecol]), P)}

TotalIn(rows, column, datecol, P) ==
    SetSum([i \in 1..Len(rows) |-> Amount(rows[i][column])], InPeriod(rows, datecol, P))

ProfitIn(P) ==
    <<TotalIn(sales, "price", "sale_date", P),
      TotalIn(expenses, "amount", "exp_date", P),
      TotalIn(sales, "price", "sale_date", P) - TotalIn(expenses, "amount", "exp_date", P)>>

FeedIn(P) ==
    <<TotalIn(feed_logs, "amount_kg", "log_date", P),
      TotalIn(feed_logs, "cost", "log_date", P)>>

\* C14: for a period that is a 4-digit year or a YYYY-MM month,
\* get_profit_summary returns as income the sum of the prices of the sales
\* whose stored date starts with the period (no price counts as 0), as
\* expenses the sum of the amounts of the expenses whose date starts with
\* it, and as profit their difference; without a period both sums run over
\* all rows.
C14_ProfitByPrefix ==
    (/\ ret.op = "get_profit_summary"
     /\ \/ ret.args[1] = NO_PERIOD
        \/ IsYearToken(ret.args[1])
        \/ IsMonthToken(ret.args[1]))
        => ret.result = ProfitIn(ret.args[1])

\* The summary of December 2023 leaves out a November sale with a price and
\* counts a December sale without a price and a December expense.
C14_Witness ==
    /\ ret.op = "get_profit_summary"
    /\ ret.args[1] = <<"2", "0", "2", "3", "-", "1", "2">>
    /\ ret.result[1] = 0
    /\ ret.result[2] > 0
    /\ ret.result[3] < 0
    /\ ProfitIn(NO_PERIOD)[1] > 0
    /\ \E i \in SaleIds : /\ sales[i].price = NULL_INT
                          /\ sales[i].sale_date[2] = 12

\* C15 as stated: a period token that is neither a 4-digit year nor a
\* YYYY-MM month makes get_profit_summary and get_feed_stats return the
\* all-time totals.
C15_MalformedIsAllTime ==
    /\ (/\ ret.op = "get_profit_summary"
         /\ ret.args[1] # NO_PERIOD
         /\ ~IsYearToken(ret.args[1])
         /\ ~IsMonthToken(ret.args[1]))
            => ret.result = ProfitIn(NO_PERIOD)
    /\ (/\ ret.op = "get_feed_stats"
         /\ ret.args[1] # NO_PERIOD
         /\ ~IsYearToken(ret.args[1])
         /\ ~IsMonthToken(ret.args[1]))
            => ret.result = FeedIn(NO_PERIOD)

\* Seven characters with "-" as the fifth.
HasMonthLayout(P) == Len(P) = 7 /\ P[5] = "-"

\* C15 as amended: a period token that is neither four digits nor seven
\* characters with "-" as the fifth makes get_profit_summary and
\* get_feed_stats return the all-time totals.
C15_OtherLayoutIsAllTime ==
    /\ (/\ ret.op = "get_profit_summary"
         /\ ret.args[1] # NO_PERIOD
         /\ ~IsYearToken(ret.args[1])
         /\ ~HasMonthLayout(ret.args[1]))
            => ret.result = ProfitIn(NO_PERIOD)
    /\ (/\ ret.op = "get_feed_stats"
         /\ ret.args[1] # NO_PERIOD
         /\ ~IsYearToken(ret.args[1])
         /\ ~HasMonthLayout(ret.args[1]))
            => ret.result = FeedIn(NO_PERIOD)

\* get_feed_stats has answered a four-character token that is not a year
\* with the totals of the feed log, which are not zero.
C15_Witness ==
    /\ ret.op = "get_feed_stats"
    /\ ret.args[1] = <<"2", "0", "x", "3">>
    /\ ret.result = FeedIn(NO_PERIOD)
    /\ ret.result[1] > 0
\* The pairs of an active Female and an active Male rabbit that the five
\* rules do not make danger.
SafePairs ==
    {p \in MoreNames \X MoreNames :
        /\ Stored(p[1]) /\ Stored(p[2])
        /\ HasSex(p[1], "F") /\ rabbits[IdOf(p[1])].status = "active"
        /\ HasSex(p[2], "M") /\ rabbits[IdOf(p[2])].status = "active"
        /\ RuleSeverity(p[1], p[2]) # "danger"}

\* The pairs a result names.
PairsIn(result) == {<<result[i].doe, result[i].buck>> : i \in 1..Len(result)}

\* C16: every pair suggest_breeding_pairs returns is an active doe with an
\* active buck that the rules do not make danger, and with a limit of at
\* least the number of such pairs the result names each of them once.
C16_SuggestsSafeActivePairs ==
    ret.op = "suggest_breeding_pairs"
        => /\ PairsIn(ret.result) \subseteq SafePairs
           /\ ret.args[1] >= Cardinality(SafePairs)
                 => /\ PairsIn(ret.result) = SafePairs
                    /\ Len(ret.result) = Cardinality(SafePairs)

\* A result that names a pair and leaves out a danger pair of an active doe
\* and an active buck while another rabbit is sold.
C16_Witness ==
    /\ ret.op = "suggest_breeding_pairs"
    /\ ret.args[1] = 5
    /\ Len(ret.result) >= 1
    /\ \E r \in RabbitIds : rabbits[r].status = "sold"
    /\ \E d \in RabbitIds, b \in RabbitIds :
          /\ rabbits[d].sex = "F" /\ rabbits[d].status = "active"
          /\ rabbits[b].sex = "M" /\ rabbits[b].status = "active"
          /\ RuleSeverity(rabbits[d].name, rabbits[b].name) = "danger"

\* Entry x comes before entry y in the enumeration: does by name, then
\* bucks by name.
EnumeratedBefore(x, y) ==
    \/ NameRank(x.doe) < NameRank(y.doe)
    \/ x.doe = y.doe /\ NameRank(x.buck) < NameRank(y.buck)

Occurrences(seq, x) == Cardinality({i \in 1..Len(seq) : seq[i] = x})

C19_ParentsExist ==
    [][/\ \A r \in 1..Len(rabbits') :
             /\ rabbits'[r].mother_id # NULL_ID => rabbits'[r].mother_id \in 1..Len(rabbits')
             /\ rabbits'[r].father_id # NULL_ID => rabbits'[r].father_id \in 1..Len(rabbits')
       /\ (/\ ret'.op = "update_rabbit_parents"
            /\ \E i \in 1..3 : ~Stored(ret'.args[i]))
              => /\ rabbits' = rabbits
                 /\ ret'.result \in {"Child not found.", "Mother or father not found."}]_vars

\* update_rabbit_parents has refused a stored child that has parents
\* because the father's name is not stored.
C19_Witness ==
    /\ ret.op = "update_rabbit_parents"
    /\ ret.result = "Mother or father not found."
    /\ Stored(ret.args[1]) /\ Stored(ret.args[2]) /\ ~Stored(ret.args[3])
    /\ rabbits[IdOf(ret.args[1])].mother_id # NULL_ID

RECURSIVE AncestorsIn(_, _)
\* The rabbits reached from the set S by following mother and father
\* references up to n times.
AncestorsIn(S, n) ==
    IF n = 0 THEN {}
    ELSE LET up == UNION {RegisteredParents(r) : r \in S}
         IN  up \cup AncestorsIn(up, n - 1)

\* C20: no rabbit is its own ancestor.
C20_NoOwnAncestor ==
    \A r \in RabbitIds : r \notin AncestorsIn({r}, Len(rabbits))
\* Every row of old is a row of new, at its place and with its values.
KeepsRows(old, new) == Len(new) >= Len(old) /\ SubSeq(new, 1, Len(old)) = old

\* C21: no step removes a rabbit, and no step removes or changes a stored
\* health record, weight record, sale, expense or feed log: each of these
\* tables only grows and every row keeps its values.
C21_AppendOnly ==
    [][/\ Len(rabbits') >= Len(rabbits)
       /\ \A r \in RabbitIds : rabbits'[r].name = rabbits[r].name
       /\ KeepsRows(health_records, health_records')
       /\ KeepsRows(weights, weights')
       /\ KeepsRows(sales, sales')
       /\ KeepsRows(expenses, expenses')
       /\ KeepsRows(feed_logs, feed_logs')]_vars

\* A rabbit that has a health record and a weight record has been marked
\* dead on a later day, and its records are still there.
C21_Witness ==
    /\ ret.op = "mark_dead"
    /\ ret.result = "marked as dead"
    /\ \E h \in 1..Len(health_records) :
          /\ rabbits[health_records[h].rabbit_id].name = ret.args[1]
          /\ DateOrdinal(health_records[h].record_date) < today
    /\ \E w \in 1..Len(weights) : rabbits[weights[w].rabbit_id].name = ret.args[1]

\* The operations that take the name of a rabbit.
RabbitScopedOps ==
    {"set_cage_section", "mark_dead", "record_sale", "add_health_record",
     "add_weight", "set_rabbit_photo", "add_breeding", "record_kindling"}

\* Everything the database holds.
Persisted ==
    <<rabbits, breedings, sales, expenses, feed_logs, achievements, weights,
      health_records, tasks, settings>>

\* C22: a rabbit-scoped operation called with a name no stored rabbit has
\* reports not-found and leaves every table as it was.
C22_NotFoundChangesNothing ==
    [][(/\ ret'.op \in RabbitScopedOps
        /\ \E i \in 1..Len(ret'.args) : ~Stored(ret'.args[i]))
          => /\ ret'.result \in {"Rabbit not found.", "Doe not found."}
             /\ Persisted' = Persisted]_vars

\* add_weight has just been refused for a name that is not stored, while
\* another rabbit is stored and has a weight record.
C22_Witness ==
    /\ ret.op = "add_weight"
    /\ ret.result = "Rabbit not found."
    /\ ~Stored(ret.args[1])
    /\ Len(rabbits) >= 1
    /\ Len(weights) >= 1
\* C23: mark_task_done(id) returns False and changes nothing when no task
\* has the id; otherwise it returns True and the task has its done flag set,
\* every other task and every other value staying as it was; no step clears
\* a done flag that is set.
C23_MarkTaskDone ==
    [][/\ ret'.op = "mark_task_done"
             => LET id == ret'.args[1] IN
                IF id \notin 1..Len(tasks)
                THEN ret'.result = "False" /\ tasks' = tasks
                ELSE /\ ret'.result = "True"
                     /\ tasks' = [tasks EXCEPT ![id].done = 1]
       /\ \A t \in 1..Len(tasks) :
             tasks[t].done = 1 => t \in 1..Len(tasks') /\ tasks'[t].done = 1]_vars

\* mark_task_done has returned True for the second of three tasks; the
\* second and the third are done and the first is still open.
C23_Witness ==
    /\ ret.op = "mark_task_done"
    /\ ret.result = "True"
    /\ Len(tasks) = 3
    /\ ret.args[1] = 2
    /\ tasks[2].done = 1
    /\ tasks[1].done = 0
    /\ tasks[3].done = 1
\* The weight records of the rabbit with a name (none when it is not stored).
WeightsOfName(name) ==
    {w \in 1..Len(weights) : Stored(name) /\ weights[w].rabbit_id = IdOf(name)}

WeighDay(w) == DateOrdinal(weights[w].weigh_date)

\* The record of the earliest date that was inserted first, and the record of
\* the latest date that was inserted last.
EarliestOf(rows) ==
    CHOOSE w \in rows : \A v \in rows :
        WeighDay(w) < WeighDay(v) \/ (WeighDay(w) = WeighDay(v) /\ w <= v)
LatestOf(rows) ==
    CHOOSE w \in rows : \A v \in rows :
        WeighDay(w) > WeighDay(v) \/ (WeighDay(w) = WeighDay(v) /\ w >= v)

\* C24: get_growth_stats reports no data exactly when the rabbit has fewer
\* than two weight records or all of them were taken on one day; otherwise
\* the days are the days from the earliest to the latest record date and the
\* gain is the weight of the latest record, the last inserted of its day,
\* minus the weight of the earliest.
C24_GrowthStats ==
    ret.op = "get_growth_stats"
        => LET rows == WeightsOfName(ret.args[1])
           IN  IF \/ Cardinality(rows) < 2
                  \/ \A w \in rows, v \in rows : WeighDay(w) = WeighDay(v)
               THEN ~ret.result.has_data
               ELSE /\ ret.result.has_data
                    /\ ret.result.days
                          = WeighDay(LatestOf(rows)) - WeighDay(EarliestOf(rows))
                    /\ ret.result.gain
                          = weights[LatestOf(rows)].weight_g
                               - weights[EarliestOf(rows)].weight_g
\* The jobs of a chat in a queue (none when there is no queue).
JobsOf(queue, chat_id) ==
    IF queue = NO_JOB_QUEUE THEN {}
    ELSE {i \in 1..Len(queue) : queue[i] = chat_id}

\* C25: a chat never has more than one daily job; after a /subscribe of the
\* owner (with a job queue) it has exactly one, whatever it had before, and
\* after an /unsubscribe of the owner it has none; the jobs of the other
\* chats stay, and a daily run sends no chat more than one summary.
C25_OneDailyJob ==
    [][/\ \A c \in SubscribeChats : Cardinality(JobsOf(jobs', c)) <= 1
       /\ (ret'.op = "subscribe_cmd" /\ is_owner(ret'.args[1]) /\ jobs # NO_JOB_QUEUE)
             => Cardinality(JobsOf(jobs', ret'.args[2])) = 1
       /\ (ret'.op = "unsubscribe_cmd" /\ is_owner(ret'.args[1]))
             => Cardinality(JobsOf(jobs', ret'.args[2])) = 0
       /\ ret'.op \in {"subscribe_cmd", "unsubscribe_cmd"}
             => \A c \in SubscribeChats \ {ret'.args[2]} :
                   Cardinality(JobsOf(jobs', c)) = Cardinality(JobsOf(jobs, c))
       /\ ret'.op = "daily_job"
             => \A c \in SubscribeChats : Cardinality(JobsOf(ret'.result, c)) <= 1]_vars

\* The daily run has sent one summary each to the two chats that are
\* subscribed.
C25_Witness ==
    /\ ret.op = "daily_job"
    /\ Len(ret.result) = 2
    /\ ret.result = jobs
    /\ jobs = <<"chat3", "chat1">>
\* C26: a new rabbit is active and a status is always active, sold or dead;
\* the status of a stored rabbit changes only in record_sale on that rabbit,
\* to sold, and in mark_dead on that rabbit, to dead; a rabbit that is sold
\* or dead is not active after any step.
C26_StatusLifecycle ==
    [][/\ \A r \in 1..Len(rabbits') :
             rabbits'[r].status \in {"active", "sold", "dead"}
       /\ \A r \in 1..Len(rabbits') :
             r \notin RabbitIds => rabbits'[r].status = "active"
       /\ \A r \in RabbitIds :
             rabbits'[r].status # rabbits[r].status
                => \/ /\ ret'.op = "record_sale"
                      /\ ret'.args[1] = rabbits[r].name
                      /\ rabbits'[r].status = "sold"
                   \/ /\ ret'.op = "mark_dead"
                      /\ ret'.args[1] = rabbits[r].name
                      /\ rabbits'[r].status = "dead"
       /\ \A r \in RabbitIds :
             rabbits[r].status \in {"sold", "dead"}
                => rabbits'[r].status \in {"sold", "dead"}]_vars

\* A sale of a rabbit that holds a death date: it is sold now, and the other
\* rabbit, whose cage and parents were set, is still active.
C26_Witness ==
    /\ ret.op = "record_sale"
    /\ \E r \in RabbitIds : /\ rabbits[r].name = ret.args[1]
                             /\ rabbits[r].death_date # NULL_DATE
                             /\ rabbits[r].status = "sold"
    /\ \E r \in RabbitIds : /\ rabbits[r].status = "active"
                             /\ rabbits[r].cage # NULL_TEXT
                             /\ rabbits[r].mother_id # NULL_ID
\* C27: every stored rabbit has both a mother and a father reference or
\* neither; the references of a stored rabbit change only in
\* update_rabbit_parents on that rabbit, which sets both.
C27_BothParentsOrNeither ==
    [][/\ \A r \in 1..Len(rabbits') :
             (rabbits'[r].mother_id = NULL_ID) <=> (rabbits'[r].father_id = NULL_ID)
       /\ \A r \in RabbitIds :
             (\/ rabbits'[r].mother_id # rabbits[r].mother_id
              \/ rabbits'[r].father_id # rabbits[r].father_id)
                => /\ ret'.op = "update_rabbit_parents"
                   /\ ret'.args[1] = rabbits[r].name
                   /\ rabbits'[r].mother_id = IdOf(ret'.args[2])
                   /\ rabbits'[r].father_id = IdOf(ret'.args[3])]_vars

\* update_rabbit_parents has refused a stored mother with a father that is
\* not stored for a child without parents, while another rabbit has both.
C27_Witness ==
    /\ ret.op = "update_rabbit_parents"
    /\ ret.result = "Mother or father not found."
    /\ Stored(ret.args[1]) /\ Stored(ret.args[2]) /\ ~Stored(ret.args[3])
    /\ rabbits[IdOf(ret.args[1])].mother_id = NULL_ID
    /\ rabbits[IdOf(ret.args[1])].father_id = NULL_ID
    /\ \E r \in RabbitIds : /\ rabbits[r].mother_id # NULL_ID
                             /\ rabbits[r].father_id # NULL_ID
\* C28: the handling of an update whose sender is not the owner leaves every
\* table and the job queue as they were.
C28_StrangerChangesNothing ==
    [][(Pending /\ Sender # OWNER_ID) => /\ Persisted' = Persisted
                                         /\ jobs' = jobs]_vars

\* /markdead of the other user was refused while rabbit A is stored and
\* active, a daily job is scheduled and a reminder is open.
C28_Witness ==
    /\ ret.op = "markdead_cmd"
    /\ ret.args[1] = STRANGER_ID
    /\ ret.result = "This bot is private."
    /\ \E r \in RabbitIds : rabbits[r].name = "A" /\ rabbits[r].status = "active"
    /\ jobs = <<"chat1">>
    /\ \E t \in 1..Len(tasks) : tasks[t].done = 0
\* The steps of the wizard before the final one, and /cancel.
EarlierSteps ==
    {"addrabbit_start", "addrabbit_name", "addrabbit_sex", "addrabbit_cage",
     "addrabbit_section", "addrabbit_cancel"}

\* C29: the steps of the wizard before the weight step, and /cancel, leave
\* every table as it was; a weight step that finds a rabbit with the name
\* kept for the sender leaves every table as it was, and answers that the
\* rabbit exists when the weight text is skip or a number.
C29_WritesInFinalStep ==
    [][/\ ret'.op \in EarlierSteps => Persisted' = Persisted
       /\ (/\ ret'.op = "addrabbit_weight"
            /\ Stored(user_data[ret'.args[1]].name))
              => /\ Persisted' = Persisted
                 /\ (ret'.args[3] = "skip" \/ ret'.args[3] \in DOMAIN WeightOfText)
                       => ret'.result = "already exists"]_vars

\* The weight step has answered that rabbit B exists; B has the cage, the
\* section and the weight record of the run that created it.
C29_Witness ==
    /\ ret.op = "addrabbit_weight"
    /\ ret.result = "already exists"
    /\ user_data[ret.args[1]].name = "B"
    /\ \E r \in RabbitIds : /\ rabbits[r].name = "B"
                             /\ rabbits[r].cage = "c2"
                             /\ rabbits[r].section = "s2"
                             /\ \E w \in 1..Len(weights) : weights[w].rabbit_id = r
\* C30: a weight step that ends a run with the rabbit added has appended one
\* rabbit whose name, sex, cage and section were typed in the chat of that
\* run.
C30_RunCreatesItsOwnRabbit ==
    [][(ret'.op = "addrabbit_weight" /\ ret'.result = "added")
          => LET c == ret'.args[2]
                 row == rabbits'[Len(rabbits')]
             IN  /\ Len(rabbits') = Len(rabbits) + 1
                 /\ row.name \in TypedNames[c]
                 /\ row.sex \in {Upper(t) : t \in TypedSexes[c]}
                 /\ row.cage \in TypedCages[c]
                 /\ row.section \in (TypedSections[c] \ {"skip"})
                                       \cup (IF "skip" \in TypedSections[c]
                                              THEN {NULL_TEXT} ELSE {})]_vars
====
